---- MODULE Spec2Model ----
(***************************************************************************)
(* Route Recommendation Engine of the Mumbai flood-evacuation repository:  *)
(* fuzzy place resolution, candidate filtering, scoring, ranking and       *)
(* top-K truncation of the direct-line calculators (app.py,                *)
(* mumbai_evacuation_real.py, mumbai_evacuation_complete.py,               *)
(* streamlit_app.py), the low-risk rankers (evacuation_app_simple.py,      *)
(* evacuation_app_enhanced.py, tload.py, warp.py, llload.py,               *)
(* evacuation_app.py), the dashboard session of app.py, the regions of    *)
(* road nodes and edges, the reading of the catalog file at startup and   *)
(* the infrastructure lookup of streamlit_app_enhanced.py.                 *)
(*                                                                         *)
(* Conventions of the model                                                *)
(*  - a string is a sequence of one-character strings, so that lower(),    *)
(*    strip() and title() are computed and not assumed;                    *)
(*  - areas lie on one meridian and a latitude unit is one kilometre of    *)
(*    arc: with dlon = 0 the haversine formula reduces to R * |dlat|, so   *)
(*    distance_km is the absolute latitude difference;                     *)
(*  - scores are kept in hundredths, ETAs in tenths of a minute.           *)
(***************************************************************************)
EXTENDS Integers, Sequences, FiniteSets, TLC

\* script:   the program of the repository that is running
\* flood_df: its area catalog, as its loader left it
\* G:        its road graph (NoGraph for the direct-line programs)
\* call:     the last call of its route function: arguments and returned tuple
\* session:  st.session_state of its dashboard
\* node_to_region, edge_to_region: the region (catalog row index) given to
\*           road nodes and road edges when the program started
\* csv:      the catalog file the program read at startup (NoFile where the
\*           reading of the file is not modelled)
VARIABLES script, flood_df, G, call, session, node_to_region, edge_to_region, csv

vars == <<script, flood_df, G, call, session, node_to_region, edge_to_region, csv>>

-----------------------------------------------------------------------------
(* Bounds of the model *)

\* longest catalog of the top-3 calculators (start row + 4 eligible rows)
MaxAreas == 5
\* longest catalog of the top-5 calculators (start row + 6 eligible rows)
MaxAreasAdv == 7
\* longest catalog of a dashboard session
MaxAreasDash == 2
\* longest catalog of evacuation_app_simple.py (start row + 5 further rows)
MaxAreasSimple == 6
\* longest catalog of the road-graph programs
MaxAreasGraph == 4
\* longest catalog of evacuation_app.py (start row + 6 safe rows)
MaxAreasEvac == 7
\* longest catalog of streamlit_app_enhanced.py
MaxAreasInfra == 2
\* largest latitude and longitude of a point given to the haversine formula,
\* in steps of ten degrees
MaxCoord == 2

-----------------------------------------------------------------------------
(* Strings *)

LowerChar(c) ==
    CASE c = "A" -> "a" [] c = "B" -> "b" [] c = "C" -> "c" [] c = "D" -> "d"
      [] c = "E" -> "e" [] c = "W" -> "w" [] c = "Z" -> "z" [] OTHER -> c

UpperChar(c) ==
    CASE c = "a" -> "A" [] c = "b" -> "B" [] c = "c" -> "C" [] c = "d" -> "D"
      [] c = "e" -> "E" [] c = "w" -> "W" [] c = "z" -> "Z" [] OTHER -> c

IsAlpha(c) == c # " "

\* str.lower()
Lower(s) == [i \in DOMAIN s |-> LowerChar(s[i])]

RECURSIVE LStrip(_)
LStrip(s) == IF s # <<>> /\ Head(s) = " " THEN LStrip(Tail(s)) ELSE s

RECURSIVE RStrip(_)
RStrip(s) ==
    IF s # <<>> /\ s[Len(s)] = " " THEN RStrip(SubSeq(s, 1, Len(s) - 1)) ELSE s

\* str.strip()
Strip(s) == RStrip(LStrip(s))

\* str.title(): a letter that follows a non-letter is upper-cased, any other
\* letter lower-cased
Title(s) ==
    [i \in DOMAIN s |->
        IF i = 1 \/ ~IsAlpha(s[i - 1]) THEN UpperChar(s[i]) ELSE LowerChar(s[i])]

\* Python's None (as a name) and None (as a score)
None == <<"None">>
NoScore == -1

-----------------------------------------------------------------------------
(* Arithmetic *)

Abs(x) == IF x < 0 THEN -x ELSE x

Min(a, b) == IF a <= b THEN a ELSE b

\* round(n / d) for d > 0, ties to the even neighbour (Python's round())
RoundDiv(n, d) ==
    LET q == n \div d
        r == n - q * d
    IN  IF 2 * r < d THEN q
        ELSE IF 2 * r > d THEN q + 1
        ELSE IF q % 2 = 0 THEN q ELSE q + 1

\* list[:k]
Take(s, k) == SubSeq(s, 1, Min(k, Len(s)))

\* an insertion that puts an item before the items of equal key
RECURSIVE InsertBeforeEqual(_, _)
InsertBeforeEqual(acc, x) ==
    IF acc = <<>> THEN <<x>>
    ELSE IF acc[Len(acc)][1] < x[1] THEN Append(acc, x)
    ELSE Append(InsertBeforeEqual(SubSeq(acc, 1, Len(acc) - 1), x), acc[Len(acc)])

\* sorted(list, key=...) / list.sort(key=...): stable, ascending.  The
\* list is sorted as pairs <<key, item>>; an item goes behind every item
\* whose key is not larger.
RECURSIVE InsertSorted(_, _)
InsertSorted(acc, x) ==
    IF acc = <<>> THEN <<x>>
    ELSE IF acc[Len(acc)][1] <= x[1] THEN Append(acc, x)
    ELSE Append(InsertSorted(SubSeq(acc, 1, Len(acc) - 1), x), acc[Len(acc)])

RECURSIVE SortedFrom(_, _)
SortedFrom(acc, s) ==
    IF s = <<>> THEN acc ELSE SortedFrom(InsertSorted(acc, Head(s)), Tail(s))

Sorted(s, Key(_)) ==
    LET keyed == SortedFrom(<<>>, [i \in DOMAIN s |-> <<Key(s[i]), s[i]>>])
    IN  [i \in DOMAIN keyed |-> keyed[i][2]]

\* Series.unique(): first occurrences, in order
RECURSIVE Unique(_)
Unique(s) ==
    IF s = <<>> THEN <<>>
    ELSE LET init == Unique(SubSeq(s, 1, Len(s) - 1))
             x == s[Len(s)]
         IN  IF \E i \in DOMAIN init : init[i] = x THEN init ELSE Append(init, x)

\* the index labels of the rows of df that satisfy P, in row order
RECURSIVE TrueIndices(_, _)
TrueIndices(mask, i) ==
    IF i > Len(mask) THEN <<>>
    ELSE IF mask[i] THEN <<i>> \o TrueIndices(mask, i + 1)
    ELSE TrueIndices(mask, i + 1)

RowsWhere(df, P(_)) == TrueIndices([i \in DOMAIN df |-> P(df[i])], 1)

-----------------------------------------------------------------------------
(* Area catalog *)

Row(n, la, r, p, d) == [name |-> n, lat |-> la, risk |-> r, prio |-> p, dens |-> d]

\* rows of a catalog with the columns of app.py / mumbai_evacuation_real.py
\* (no Evacuation_Priority, no Population_Density), names as the loaders
\* leave them: stripped and lower-cased
BasicPool ==
    { Row(<<"a">>, 0, "High", "NA", 0),
      Row(<<"b">>, 4, "Low", "NA", 0),
      Row(<<"c">>, 5, "Low", "NA", 0),
      Row(<<"b">>, 1, "Medium", "NA", 0),
      Row(<<"d">>, 19, "Medium", "NA", 0),
      Row(<<"e", " ", "w">>, 10, "High", "NA", 0) }

\* every listing of at most n different rows of pool
Arrangements(pool, n) ==
    { s \in UNION { [1..k -> pool] : k \in 1..n } :
        \A i, j \in DOMAIN s : i # j => s[i] # s[j] }

\* rows of a catalog with the columns of mumbai_evacuation_complete.py /
\* streamlit_app.py, in table order (Population_Density in hundreds)
AdvTable ==
    << Row(<<"a">>, 0, "Critical", "Immediate", 500),
       Row(<<"b">>, 4, "Low", "Safe", 50),
       Row(<<"c">>, 2, "Medium", "Standard", 50),
       Row(<<"d">>, 3, "High", "Urgent", 50),
       Row(<<"e", " ", "w">>, 9, "Medium", "Standard", 400),
       Row(<<"b", " ", "w">>, 16, "Low", "Safe", 200),
       Row(<<"c", " ", "w">>, 1, "Medium", "Standard", 850),
       Row(<<"d", " ", "w">>, 2, "Low", "Safe", 50),
       Row(<<"a", " ", "w">>, 6, "Low", "Immediate", 200),
       Row(<<"e">>, 7, "Low", "Safe", 49),
       Row(<<"w">>, 7, "Low", "Safe", 41) >>

Reverse(s) == [i \in DOMAIN s |-> s[Len(s) + 1 - i]]

RECURSIVE Listing(_, _)
Listing(table, S) ==
    IF S = {} THEN <<>>
    ELSE LET i == CHOOSE x \in S : \A y \in S : x <= y
         IN  <<table[i]>> \o Listing(table, S \ {i})

\* every selection of at most n rows of table, in table order or reversed
Selections(table, n) ==
    LET up == { Listing(table, S) :
                  S \in { T \in SUBSET DOMAIN table : T # {} /\ Cardinality(T) <= n } }
    IN  up \cup { Reverse(s) : s \in up }

Names(df) == [i \in DOMAIN df |-> df[i].name]

\* rows of a catalog of evacuation_app_simple.py, in table order; the
\* Flood-risk_level column is free text
SimpleTable ==
    << Row(<<"a">>, 0, "High", "NA", 0),
       Row(<<"b">>, 9, "Low", "NA", 0),
       Row(<<"c">>, 7, "low", "NA", 0),
       Row(<<"d">>, 5, "Minimal", "NA", 0),
       Row(<<"e", " ", "w">>, 1, "LOW", "NA", 0),
       Row(<<"b", " ", "w">>, 3, "Moderate", "NA", 0) >>

\* str.lower() on the words of a risk column
risk_lower(r) ==
    CASE r \in {"Low", "low", "LOW"} -> "low"
      [] r \in {"Minimal", "minimal"} -> "minimal"
      [] r \in {"Safe", "safe"} -> "safe"
      [] r \in {"Moderate", "moderate"} -> "moderate"
      [] r \in {"High", "high", "HIGH"} -> "high"
      [] r \in {"Medium", "medium"} -> "medium"
      [] r \in {"Critical", "critical"} -> "critical"
      [] OTHER -> r

\* rows of mumbai_ward_area_floodrisk.csv as the road-graph programs read
\* them, before their loaders normalise names and risk levels
GraphTable ==
    << Row(<<"a">>, 1, "High", "NA", 0),
       Row(<<"B">>, 3, "Low", "NA", 0),
       Row(<<"c", " ", "w">>, 9, "LOW", "NA", 0),
       Row(<<"d">>, 0, "low", "NA", 0),
       Row(<<"e">>, 12, "Moderate", "NA", 0),
       Row(<<"a", " ", "w">>, 6, "Critical", "NA", 0),
       Row(<<"d", " ", "w">>, 10, "Medium", "NA", 0) >>

\* rows of the catalog of evacuation_app.py, in table order
EvacTable ==
    << Row(<<"a">>, 1, "High", "NA", 0),
       Row(<<"b">>, 9, "Low", "NA", 0),
       Row(<<"c">>, 11, "low", "NA", 0),
       Row(<<"d">>, 8, "Minimal", "NA", 0),
       Row(<<"e", " ", "w">>, 12, "Safe", "NA", 0),
       Row(<<"b", " ", "w">>, 10, "LOW", "NA", 0),
       Row(<<"c", " ", "w">>, 3, "Low", "NA", 0) >>

\* free-text inputs: empty, blank, a case/whitespace variation of "a", and
\* a text equal to no catalog name
Queries == { <<>>, <<" ">>, <<"A", " ">>, <<"z">> }

IsBlank(q) == Strip(q) = <<>>

-----------------------------------------------------------------------------
(* Place resolver *)

\* a processor that lower-cases and keeps the surrounding whitespace
full_process_unstripped(s) == Lower(s)

\* fuzzywuzzy's default processor (lower-case, strip)
full_process(s) == Strip(Lower(s))

\* similarities the library can report for a text that equals no choice:
\* the values on both sides of the thresholds 40, 50 and 60 of the callers
Scores == {39, 40, 49, 50, 59, 60}

\* process.extractOne(query, choices): the pairs <<choice, score>> the
\* library can return.  An empty processed query scores 0 against every
\* choice and max() keeps the first; a choice equal to the processed query
\* scores 100 (first such choice); otherwise some choice with a score below
\* 100.
extractOne(query, choices) ==
    LET pq == full_process(query)
        exact == { i \in DOMAIN choices : full_process(choices[i]) = pq }
    IN  IF pq = <<>> THEN { <<choices[1], 0>> }
        ELSE IF exact # {}
             THEN { <<choices[CHOOSE i \in exact : \A j \in exact : i <= j], 100>> }
        ELSE { <<choices[i], sc>> : i \in DOMAIN choices, sc \in Scores }

\* df[df[name] == best_match].iloc[0]
FirstRow(df, nm) == df[CHOOSE i \in DOMAIN df : df[i].name = nm /\ \A j \in 1..(i - 1) : df[j].name # nm]

\* similarities rapidfuzz can report (floats, here in tenths of a point)
FloatScores == { sc * 10 : sc \in Scores } \cup { 499, 599 }

\* int(x) of a non-negative float kept in tenths
int(x) == x \div 10

\* fuzzy_process.extractOne(query, choices) of the road-graph programs
\* (rapidfuzz, fuzzywuzzy or the difflib stand-in, whichever imports): the
\* pairs <<choice, score in tenths>> it can return.  Query and choices
\* arrive lower-cased; which choice an empty query yields depends on the
\* library.
fuzzy_extractOne(query, choices) ==
    LET exact == { i \in DOMAIN choices : choices[i] = query }
    IN  IF query = <<>> THEN { <<choices[i], 0>> : i \in DOMAIN choices }
        ELSE IF exact # {}
             THEN { <<choices[CHOOSE i \in exact : \A j \in exact : i <= j], 1000>> }
        ELSE { <<choices[i], sc>> : i \in DOMAIN choices, sc \in FloatScores }

-----------------------------------------------------------------------------
(* Road graph: a networkx MultiDiGraph with edge attribute length *)

\* y (latitude) of the nodes 1, 2, 3
NodeY == <<0, 4, 10>>

\* the node pairs that can carry edges
Links == { <<1, 2>>, <<2, 1>>, <<2, 3>>, <<3, 2>>, <<1, 3>> }

\* the edges a pair can carry: their lengths in metres by key 0, 1, ...
\* (lengths chosen so that no two paths between two nodes weigh the same)
LinkOptions(l) ==
    CASE l = <<1, 2>> -> { <<>>, <<5>>, <<5, 3>> }
      [] l = <<2, 1>> -> { <<>>, <<5>> }
      [] l \in { <<2, 3>>, <<3, 2>> } -> { <<>>, <<7>> }
      [] l = <<1, 3>> -> { <<>>, <<11>> }

\* adj[<<u, v>>][key + 1] is the length of edge (u, v, key)
RoadGraphs ==
    { [nodes |-> DOMAIN NodeY, adj |-> a] :
        a \in { f \in [Links -> UNION { LinkOptions(l) : l \in Links }] :
                  \A l \in Links : f[l] \in LinkOptions(l) } }

\* G.get_edge_data(u, v): the lengths of the parallel edges from u to v
get_edge_data(g, u, v) ==
    IF u \in g.nodes /\ v \in g.nodes /\ <<u, v>> \in DOMAIN g.adj
    THEN g.adj[<<u, v>>] ELSE <<>>

RECURSIVE MinOf(_)
MinOf(s) == IF Len(s) = 1 THEN s[1] ELSE Min(s[1], MinOf(Tail(s)))

\* networkx weight of a multigraph hop: the least length over parallel edges
EdgeWeight(g, u, v) == MinOf(get_edge_data(g, u, v))

\* the node sequences without repetition that follow edges from s to t
SimplePaths(g, s, t) ==
    { p \in UNION { [1..k -> g.nodes] : k \in 1..Cardinality(g.nodes) } :
        /\ p[1] = s /\ p[Len(p)] = t
        /\ \A i, j \in DOMAIN p : i # j => p[i] # p[j]
        /\ \A i \in 1..(Len(p) - 1) : get_edge_data(g, p[i], p[i + 1]) # <<>> }

RECURSIVE PathWeight(_, _)
PathWeight(g, p) ==
    IF Len(p) <= 1 THEN 0
    ELSE EdgeWeight(g, p[1], p[2]) + PathWeight(g, Tail(p))

\* nx.has_path(G, s, t)
has_path(g, s, t) == SimplePaths(g, s, t) # {}

\* nx.shortest_path(G, s, t, weight="length"), defined when has_path
shortest_path(g, s, t) ==
    CHOOSE p \in SimplePaths(g, s, t) :
        \A q \in SimplePaths(g, s, t) : PathWeight(g, p) <= PathWeight(g, q)

\* nx.shortest_path_length(G, s, t, weight="length")
shortest_path_length(g, s, t) == PathWeight(g, shortest_path(g, s, t))

\* ox.distance.nearest_nodes(G, lon, lat) for a point on the meridian of
\* the nodes (the catalogs put no area halfway between two nodes)
nearest_nodes(g, lat) ==
    CHOOSE n \in g.nodes :
        \A m \in g.nodes :
            \/ Abs(NodeY[n] - lat) < Abs(NodeY[m] - lat)
            \/ Abs(NodeY[n] - lat) = Abs(NodeY[m] - lat) /\ n <= m

\* calculate_route_distance / route_length_m: get_route_edge_attributes
\* and the fallback loop both take the shortest parallel edge of each hop
RECURSIVE calculate_route_distance(_, _)
calculate_route_distance(g, route) ==
    IF Len(route) <= 1 THEN 0
    ELSE MinOf(get_edge_data(g, route[1], route[2]))
           + calculate_route_distance(g, Tail(route))

-----------------------------------------------------------------------------
(* Direct-line scoring calculators *)

\* what one call returned: the tuple (best_match, score, routes) and the
\* number of times the similarity metric was invoked on the way
Result(bm, sc, rs, n) ==
    [best_match |-> bm, score |-> sc, routes |-> rs, extract_calls |-> n]

\* app.py: risk_score = {"Low": 1, "Medium": 2, "High": 3}[...]
risk_score(r) == CASE r = "Low" -> 1 [] r = "Medium" -> 2 [] r = "High" -> 3

\* app.py: one pass of the loop over safe_zones.iterrows()
app_route(df, start_area, i) ==
    LET safe_area == df[i]
        distance_km == Abs(safe_area.lat - start_area.lat)
        combined_score == (risk_score(safe_area.risk) * 200) + (distance_km * 50)
        speed_kmh == IF distance_km < 5 THEN 15
                     ELSE IF distance_km < 15 THEN 25 ELSE 35
        eta_min == RoundDiv(distance_km * 60 * 13, speed_kmh)
    IN  [row |-> i,
         destination |-> Title(safe_area.name),
         destination_lat |-> safe_area.lat,
         distance_km |-> distance_km,
         eta_min |-> eta_min,
         risk_level |-> safe_area.risk,
         combined_score |-> combined_score]

CombinedScore(route) == route.combined_score

\* calculate_evacuation_routes of app.py without the removal of the start area
app_calculate_keeps_start(user_area, df, res) ==
    LET best_match == res[1]
        score == res[2]
    IN  IF score < 50 THEN Result(None, NoScore, <<>>, 1)
        ELSE
          LET start_area == FirstRow(df, best_match)
              IsSafe(r) == r.risk \in {"Low", "Medium"}
              safe_zones == RowsWhere(df, IsSafe)
              routes == [k \in DOMAIN safe_zones |-> app_route(df, start_area, safe_zones[k])]
          IN  IF safe_zones = <<>> THEN Result(best_match, score, <<>>, 1)
              ELSE Result(best_match, score, Take(Sorted(routes, CombinedScore), 3), 1)

\* calculate_evacuation_routes of app.py rejecting a score equal to the threshold
app_calculate_exclusive_threshold(user_area, df, res) ==
    LET best_match == res[1]
        score == res[2]
    IN  IF score <= 50 THEN Result(None, NoScore, <<>>, 1)
        ELSE
          LET start_area == FirstRow(df, best_match)
              IsSafe(r) == r.risk \in {"Low", "Medium"} /\ r.name # best_match
              safe_zones == RowsWhere(df, IsSafe)
              routes == [k \in DOMAIN safe_zones |-> app_route(df, start_area, safe_zones[k])]
          IN  IF safe_zones = <<>> THEN Result(best_match, score, <<>>, 1)
              ELSE Result(best_match, score, Take(Sorted(routes, CombinedScore), 3), 1)

\* app.py: calculate_evacuation_routes(user_area, flood_df); res is the
\* pair process.extractOne returned for user_area.lower()
app_calculate_evacuation_routes(user_area, df, res) ==
    LET best_match == res[1]
        score == res[2]
    IN  IF score < 50 THEN Result(None, NoScore, <<>>, 1)
        ELSE
          LET start_area == FirstRow(df, best_match)
              IsSafe(r) == r.risk \in {"Low", "Medium"} /\ r.name # best_match
              safe_zones == RowsWhere(df, IsSafe)
              routes == [k \in DOMAIN safe_zones |-> app_route(df, start_area, safe_zones[k])]
          IN  IF safe_zones = <<>> THEN Result(best_match, score, <<>>, 1)
              ELSE Result(best_match, score, Take(Sorted(routes, CombinedScore), 3), 1)

\* mumbai_evacuation_real.py: one pass of the loop over safe_zones.iterrows()
real_route(df, start_area, i) ==
    LET safe_area == df[i]
        distance_km == Abs(safe_area.lat - start_area.lat)
        distance_score == distance_km
        combined_score == (risk_score(safe_area.risk) * 200) + (distance_score * 50)
        speed_kmh == IF distance_km < 5 THEN 15
                     ELSE IF distance_km < 15 THEN 25 ELSE 35
        eta_min == RoundDiv(distance_km * 60 * 13, speed_kmh)
    IN  [row |-> i,
         destination |-> Title(safe_area.name),
         destination_lat |-> safe_area.lat,
         distance_km |-> distance_km,
         eta_min |-> eta_min,
         risk_level |-> safe_area.risk,
         safety_score |-> risk_score(safe_area.risk),
         combined_score |-> combined_score]

\* calculate_evacuation_routes of mumbai_evacuation_real.py without the sort
real_calculate_unsorted(user_area, df, res) ==
    LET best_match == res[1]
        score == res[2]
    IN  IF score < 50 THEN Result(None, NoScore, <<>>, 1)
        ELSE
          LET start_area == FirstRow(df, best_match)
              IsLowMedium(r) == r.risk \in {"Low", "Medium"}
              NotCurrent(i) == df[i].name # best_match
              safe_zones == SelectSeq(RowsWhere(df, IsLowMedium), NotCurrent)
              routes == [k \in DOMAIN safe_zones |-> real_route(df, start_area, safe_zones[k])]
          IN  IF safe_zones = <<>> THEN Result(best_match, score, <<>>, 1)
              ELSE Result(best_match, score, Take(routes, 3), 1)

\* mumbai_evacuation_real.py: calculate_evacuation_routes(user_area, flood_df)
real_calculate_evacuation_routes(user_area, df, res) ==
    LET best_match == res[1]
        score == res[2]
    IN  IF score < 50 THEN Result(None, NoScore, <<>>, 1)
        ELSE
          LET start_area == FirstRow(df, best_match)
              IsLowMedium(r) == r.risk \in {"Low", "Medium"}
              NotCurrent(i) == df[i].name # best_match
              safe_zones == SelectSeq(RowsWhere(df, IsLowMedium), NotCurrent)
              routes == [k \in DOMAIN safe_zones |-> real_route(df, start_area, safe_zones[k])]
          IN  IF safe_zones = <<>> THEN Result(best_match, score, <<>>, 1)
              ELSE Result(best_match, score, Take(Sorted(routes, CombinedScore), 3), 1)

\* the risk scores with the order of the levels reversed
risk_scores_reversed(r) ==
    CASE r = "Critical" -> 1 [] r = "High" -> 2 [] r = "Medium" -> 3
      [] r = "Low" -> 4 [] OTHER -> 2

\* risk_scores = {"Critical": 4, "High": 3, "Medium": 2, "Low": 1}; .get(x, 2)
risk_scores(r) ==
    CASE r = "Critical" -> 4 [] r = "High" -> 3 [] r = "Medium" -> 2
      [] r = "Low" -> 1 [] OTHER -> 2

\* twice the urgency multiplier {"Immediate": 3, "Urgent": 2, "Standard": 1.5, "Safe": 1}
urgency_multiplier2(p) ==
    CASE p = "Immediate" -> 6 [] p = "Urgent" -> 4 [] p = "Standard" -> 3 [] p = "Safe" -> 2

\* distance-tier speed of mumbai_evacuation_complete.py / streamlit_app.py
base_speed(distance_km) ==
    IF distance_km < 3 THEN 12
    ELSE IF distance_km < 8 THEN 18
    ELSE IF distance_km < 15 THEN 25 ELSE 35

\* total ETA with the base speed of the tier left unslowed
total_eta_base_speed(distance_km) ==
    RoundDiv(distance_km * 60 * 14, base_speed(distance_km))

\* round(total_eta, 1) in tenths of a minute: actual_speed = base_speed * 0.7,
\* base_eta = distance_km / actual_speed * 60, total_eta = base_eta * 1.4
total_eta(distance_km) ==
    RoundDiv(distance_km * 60 * 14 * 10, base_speed(distance_km) * 7)

\* the loop pass taking the urgency multiplier from the destination's priority
advanced_route_destination_urgency(df, current_location, i) ==
    LET destination == df[i]
        distance_km == Abs(destination.lat - current_location.lat)
        safety_score == risk_scores(destination.risk)
        current_risk_score == risk_scores(current_location.risk)
        safety_improvement == (current_risk_score - safety_score) * 2
        raw20000 == ((distance_km * 3000) - (safety_improvement * 10000) + (destination.dens * 5))
                      * urgency_multiplier2(destination.prio)
    IN  [row |-> i,
         destination |-> Title(destination.name),
         destination_lat |-> destination.lat,
         distance_km |-> distance_km,
         eta_minutes |-> total_eta(distance_km),
         risk_level |-> destination.risk,
         evacuation_priority |-> destination.prio,
         safety_improvement |-> safety_improvement,
         route_score |-> RoundDiv(raw20000, 200),
         population_density |-> destination.dens]

\* mumbai_evacuation_complete.py: one pass of the loop over safe_zones.iterrows().
\* route_score = round((distance_km*0.3 - safety_improvement + density/100000*0.5)
\* * urgency_multiplier, 2), here in hundredths; total_eta = base_eta * 1.4 with
\* base_eta = distance_km / (base_speed * 0.7) * 60, here in tenths of a minute.
advanced_route(df, current_location, i) ==
    LET destination == df[i]
        distance_km == Abs(destination.lat - current_location.lat)
        safety_score == risk_scores(destination.risk)
        current_risk_score == risk_scores(current_location.risk)
        safety_improvement == (current_risk_score - safety_score) * 2
        raw20000 == ((distance_km * 3000) - (safety_improvement * 10000) + (destination.dens * 5))
                      * urgency_multiplier2(current_location.prio)
    IN  [row |-> i,
         destination |-> Title(destination.name),
         destination_lat |-> destination.lat,
         distance_km |-> distance_km,
         eta_minutes |-> total_eta(distance_km),
         risk_level |-> destination.risk,
         evacuation_priority |-> destination.prio,
         safety_improvement |-> safety_improvement,
         route_score |-> RoundDiv(raw20000, 200),
         population_density |-> destination.dens]

RouteScore(route) == route.route_score

\* calculate_advanced_evacuation_routes without the Evacuation_Priority filter
calculate_advanced_any_priority(user_area, df, res) ==
    LET best_match == res[1]
        score == res[2]
    IN  IF score < 40 THEN Result(None, NoScore, <<>>, 1)
        ELSE
          LET current_location == FirstRow(df, best_match)
              IsSafe(r) == /\ r.risk \in {"Low", "Medium"}
                           /\ r.name # best_match
              safe_zones == RowsWhere(df, IsSafe)
              routes == [k \in DOMAIN safe_zones |->
                           advanced_route(df, current_location, safe_zones[k])]
          IN  IF safe_zones = <<>> THEN Result(best_match, score, <<>>, 1)
              ELSE Result(best_match, score, Take(Sorted(routes, RouteScore), 5), 1)

\* mumbai_evacuation_complete.py: calculate_advanced_evacuation_routes(user_area, flood_df)
calculate_advanced_evacuation_routes(user_area, df, res) ==
    LET best_match == res[1]
        score == res[2]
    IN  IF score < 40 THEN Result(None, NoScore, <<>>, 1)
        ELSE
          LET current_location == FirstRow(df, best_match)
              IsSafe(r) == /\ r.risk \in {"Low", "Medium"}
                           /\ r.name # best_match
                           /\ r.prio \in {"Safe", "Standard"}
              safe_zones == RowsWhere(df, IsSafe)
              routes == [k \in DOMAIN safe_zones |->
                           advanced_route(df, current_location, safe_zones[k])]
          IN  IF safe_zones = <<>> THEN Result(best_match, score, <<>>, 1)
              ELSE Result(best_match, score, Take(Sorted(routes, RouteScore), 5), 1)

\* streamlit_app.py: one pass of the loop over safe_zones.iterrows();
\* route_score = round(distance_km*0.3 - safety_improvement, 2), in hundredths
streamlit_route(df, current_location, i) ==
    LET destination == df[i]
        distance_km == Abs(destination.lat - current_location.lat)
        safety_score == risk_scores(destination.risk)
        current_risk_score == risk_scores(current_location.risk)
        safety_improvement == (current_risk_score - safety_score) * 2
    IN  [row |-> i,
         destination |-> Title(destination.name),
         destination_lat |-> destination.lat,
         distance_km |-> distance_km,
         eta_minutes |-> total_eta(distance_km),
         risk_level |-> destination.risk,
         evacuation_priority |-> destination.prio,
         safety_improvement |-> safety_improvement,
         route_score |-> (distance_km * 30) - (safety_improvement * 100),
         population_density |-> destination.dens]

\* calculate_evacuation_routes of streamlit_app.py truncating before it sorts
streamlit_calculate_truncate_first(user_area, df, res) ==
    LET best_match == res[1]
        score == res[2]
    IN  IF score < 40 THEN Result(None, NoScore, <<>>, 1)
        ELSE
          LET current_location == FirstRow(df, best_match)
              IsSafe(r) == /\ r.risk \in {"Low", "Medium"}
                           /\ r.name # best_match
                           /\ r.prio \in {"Safe", "Standard"}
              safe_zones == RowsWhere(df, IsSafe)
              routes == [k \in DOMAIN safe_zones |->
                           streamlit_route(df, current_location, safe_zones[k])]
          IN  IF safe_zones = <<>> THEN Result(best_match, score, <<>>, 1)
              ELSE Result(best_match, score, Sorted(Take(routes, 5), RouteScore), 1)

\* streamlit_app.py: calculate_evacuation_routes(user_area, flood_df)
streamlit_calculate_evacuation_routes(user_area, df, res) ==
    LET best_match == res[1]
        score == res[2]
    IN  IF score < 40 THEN Result(None, NoScore, <<>>, 1)
        ELSE
          LET current_location == FirstRow(df, best_match)
              IsSafe(r) == /\ r.risk \in {"Low", "Medium"}
                           /\ r.name # best_match
                           /\ r.prio \in {"Safe", "Standard"}
              safe_zones == RowsWhere(df, IsSafe)
              routes == [k \in DOMAIN safe_zones |->
                           streamlit_route(df, current_location, safe_zones[k])]
          IN  IF safe_zones = <<>> THEN Result(best_match, score, <<>>, 1)
              ELSE Result(best_match, score, Take(Sorted(routes, RouteScore), 5), 1)

-----------------------------------------------------------------------------
(* evacuation_app_simple.py *)

\* one pass of the loop over safe_areas.head(3).iterrows(); with equal
\* longitudes sqrt(lat_diff**2 + lon_diff**2) * 111 is |lat_diff| * 111
\* (distance_km in units of |lat| * 111, eta_min = distance_km / 25 * 60
\* in fifths of that unit)
simple_route(df, start, i) ==
    LET safe_area == df[i]
        lat_diff == safe_area.lat - start.lat
        distance_km == Abs(lat_diff) * 111
        eta_min == distance_km * 12
    IN  [row |-> i,
         destination |-> Title(safe_area.name),
         destination_lat |-> safe_area.lat,
         distance_km |-> distance_km,
         eta_min |-> eta_min,
         risk_level |-> safe_area.risk]

DistanceKm(route) == route.distance_km

\* calculate_simple_routes(user_area, flood_df)
calculate_simple_routes(user_area, df, res) ==
    LET best_match == res[1]
        score == res[2]
    IN  IF score < 60 THEN Result(None, NoScore, <<>>, 1)
        ELSE
          LET start == FirstRow(df, best_match)
              IsSafe(r) == risk_lower(r.risk) \in {"low", "minimal", "safe"}
              safe_areas == RowsWhere(df, IsSafe)
              head == Take(safe_areas, 3)
              routes == [k \in DOMAIN head |-> simple_route(df, start, head[k])]
          IN  IF safe_areas = <<>> THEN Result(best_match, score, <<>>, 1)
              ELSE Result(best_match, score, Take(Sorted(routes, DistanceKm), 2), 1)

-----------------------------------------------------------------------------
(* evacuation_app_enhanced.py and warp.py *)

\* a coordinate cell holding text that is no number, and the NaN that
\* pd.to_numeric(errors='coerce') makes of it
Text == -1000001
NaN == -1000002

to_numeric(cell) == IF cell = Text THEN NaN ELSE cell

\* normalize_csv_data(df) after the check of the columns: areas
\* strip().title(), flood_risk_level lower(), coordinates to_numeric, and
\* dropna on the coordinates
normalize_csv_data(df) ==
    LET cleaned == [i \in DOMAIN df |->
                      [df[i] EXCEPT !.name = Title(Strip(@)), !.risk = risk_lower(@),
                                    !.lat = to_numeric(@)]]
        kept == SelectSeq([i \in DOMAIN df |-> i], LAMBDA i : cleaned[i].lat # NaN)
    IN  [k \in DOMAIN kept |-> cleaned[kept[k]]]

all_areas_lower(df) == [i \in DOMAIN df |-> Lower(df[i].name)]

\* fuzzy_match_region(user_input, flood_df); res is the answer of
\* extractOne.  Returns <<area, confidence>>.
fuzzy_match_region(user_input, df, res) ==
    LET best_match == res[1]
        confidence == int(res[2])
        hits == { i \in DOMAIN df : Lower(df[i].name) = best_match }
    IN  IF confidence < 60 THEN <<None, confidence>>
        ELSE IF hits # {}
             THEN <<df[CHOOSE i \in hits : \A j \in hits : i <= j].name, confidence>>
        ELSE <<None, confidence>>

\* the route dictionary built for catalog row i (distance_km in metres,
\* eta = (length_m / 1000) / 25 * 60 in ten-thousandths of a minute)
graph_route(g, df, start_node, i) ==
    LET dest_node == nearest_nodes(g, df[i].lat)
        path == shortest_path(g, start_node, dest_node)
        length_m == calculate_route_distance(g, path)
    IN  [row |-> i,
         destination |-> df[i].name,
         risk_level |-> df[i].risk,
         distance_km |-> length_m,
         eta_minutes |-> length_m * 24,
         path |-> path]

\* safe_regions taking the low and the moderate rows together
safe_regions_low_and_moderate(df) ==
    LET IsLowOrModerate(r) == r.risk \in {"low", "moderate"}
    IN  RowsWhere(df, IsLowOrModerate)

\* the rows of safe_regions: the low rows, or the moderate rows if none
safe_regions(df) ==
    LET IsLow(r) == r.risk = "low"
        IsModerate(r) == r.risk = "moderate"
    IN  IF RowsWhere(df, IsLow) = <<>> THEN RowsWhere(df, IsModerate)
        ELSE RowsWhere(df, IsLow)

\* find_safest_routes(user_region, G, flood_df)
find_safest_routes(user_region, g, df) ==
    LET user_row == FirstRow(df, user_region)
        start_node == nearest_nodes(g, user_row.lat)
        Reached(i) == has_path(g, start_node, nearest_nodes(g, df[i].lat))
        found == SelectSeq(safe_regions(df), Reached)
        routes == [k \in DOMAIN found |-> graph_route(g, df, start_node, found[k])]
    IN  Take(Sorted(routes, DistanceKm), 2)

\* find_user_location_and_routes giving up the whole query when some
\* candidate has no path
find_user_location_and_routes_aborting(user_input, g, df, res) ==
    LET best_match == res[1]
        confidence == res[2]
        hits == { i \in DOMAIN df : Lower(df[i].name) = best_match }
    IN  IF confidence < 600 \/ hits = {} THEN Result(None, NoScore, <<>>, 1)
        ELSE
          LET matched_region == df[CHOOSE i \in hits : \A j \in hits : i <= j].name
              user_region_data == FirstRow(df, matched_region)
              start_node == nearest_nodes(g, user_region_data.lat)
              cands == safe_regions(df)
              Kept(i) == /\ nearest_nodes(g, df[i].lat) # start_node
                         /\ has_path(g, start_node, nearest_nodes(g, df[i].lat))
              found == SelectSeq(cands, Kept)
              potential_routes ==
                  [k \in DOMAIN found |-> graph_route(g, df, start_node, found[k])]
          IN  IF \E k \in DOMAIN cands :
                    ~has_path(g, start_node, nearest_nodes(g, df[cands[k]].lat))
              THEN Result(matched_region, confidence, <<>>, 1)
              ELSE Result(matched_region, confidence,
                          Take(Sorted(potential_routes, DistanceKm), 2), 1)

\* warp.py: find_user_location_and_routes(user_input, G, flood_df,
\* node_to_region); confidence stays the library's float
find_user_location_and_routes(user_input, g, df, res) ==
    LET best_match == res[1]
        confidence == res[2]
        hits == { i \in DOMAIN df : Lower(df[i].name) = best_match }
    IN  IF confidence < 600 \/ hits = {} THEN Result(None, NoScore, <<>>, 1)
        ELSE
          LET matched_region == df[CHOOSE i \in hits : \A j \in hits : i <= j].name
              user_region_data == FirstRow(df, matched_region)
              start_node == nearest_nodes(g, user_region_data.lat)
              Kept(i) == /\ nearest_nodes(g, df[i].lat) # start_node
                         /\ has_path(g, start_node, nearest_nodes(g, df[i].lat))
              found == SelectSeq(safe_regions(df), Kept)
              potential_routes ==
                  [k \in DOMAIN found |-> graph_route(g, df, start_node, found[k])]
          IN  Result(matched_region, confidence,
                     Take(Sorted(potential_routes, DistanceKm), 2), 1)

-----------------------------------------------------------------------------
(* tload.py *)

\* normalize_columns(df): areas and flood_risk_level strip().lower()
normalize_columns(df) ==
    [i \in DOMAIN df |->
        [df[i] EXCEPT !.name = Lower(Strip(@)), !.risk = risk_lower(@)]]

\* haversine_m between two points of one meridian (latitude unit 1 km)
haversine_m(lat1, lat2) == Abs(lat2 - lat1) * 1000

\* list(G.nodes)
node_ids(g) ==
    LET InG(n) == n \in g.nodes
    IN  SelectSeq([n \in DOMAIN NodeY |-> n], InG)

\* nodeid_to_region_idx: np.argmin over the regions, first minimum
nodeid_to_region_idx(g, df) ==
    [n \in g.nodes |->
        CHOOSE i \in DOMAIN df :
            \A j \in DOMAIN df :
                \/ haversine_m(df[i].lat, NodeY[n]) < haversine_m(df[j].lat, NodeY[n])
                \/ /\ haversine_m(df[i].lat, NodeY[n]) = haversine_m(df[j].lat, NodeY[n])
                   /\ i <= j]

\* a loop that takes the first two candidates whatever their regions
select_nearest_two(candidates, region_idx, selected) ==
    LET two == Take(candidates, 2)
    IN  [k \in DOMAIN two |-> <<two[k][1], two[k][2], region_idx[two[k][1]]>>]

\* the loop filling selected: the first two candidates of different regions
RECURSIVE select_regions(_, _, _)
select_regions(candidates, region_idx, selected) ==
    IF candidates = <<>> THEN selected
    ELSE LET node == Head(candidates)[1]
             dist_m == Head(candidates)[2]
             ridx == region_idx[node]
             seen == { selected[k][3] : k \in DOMAIN selected }
             sel == IF ridx \notin seen THEN Append(selected, <<node, dist_m, ridx>>)
                    ELSE selected
         IN  IF Len(sel) >= 2 THEN sel
             ELSE select_regions(Tail(candidates), region_idx, sel)

SecondOf(pair) == pair[2]

\* find_two_safest_routes_for_user(user_input_str); res is the answer of
\* extractOne
find_two_safest_routes_for_user(user_input_str, g, df, res) ==
    LET best_match == res[1]
        score == int(res[2])
    IN  IF best_match = <<>> \/ score < 50 THEN Result(None, score, <<>>, 1)
        ELSE
          LET idx == CHOOSE i \in DOMAIN df :
                        /\ df[i].name = best_match
                        /\ \A j \in 1..(i - 1) : df[j].name # best_match
              start_node == nearest_nodes(g, df[idx].lat)
              low_region_idxs == { i \in DOMAIN df : risk_lower(df[i].risk) = "low" }
              region_idx == nodeid_to_region_idx(g, df)
              IsSafe(n) == region_idx[n] \in low_region_idxs
              safe_nodes == SelectSeq(node_ids(g), IsSafe)
              InLengths(n) == has_path(g, start_node, n)
              reached == SelectSeq(safe_nodes, InLengths)
              candidates ==
                  Sorted([k \in DOMAIN reached |->
                            <<reached[k], shortest_path_length(g, start_node, reached[k])>>],
                         SecondOf)
              selected == select_regions(candidates, region_idx, <<>>)
              routes ==
                  [k \in DOMAIN selected |->
                     LET path == shortest_path(g, start_node, selected[k][1])
                         length_m == calculate_route_distance(g, path)
                     IN  [row |-> selected[k][3],
                          dest_region |-> df[selected[k][3]].name,
                          dest_region_idx |-> selected[k][3],
                          dest_node |-> selected[k][1],
                          path |-> path,
                          distance_km |-> length_m,
                          eta_min |-> length_m * 24]]
          IN  IF low_region_idxs = {} \/ safe_nodes = <<>> \/ candidates = <<>>
              THEN Result(best_match, score, <<>>, 1)
              ELSE Result(best_match, score, routes, 1)

-----------------------------------------------------------------------------
(* llload.py *)

\* float("inf")
inf == 1000000

\* the route None of compute_route_info (a route has at least one node)
NoRoute == <<>>

\* route_length_m_multidigraph(G, route)
RECURSIVE route_length_m_multidigraph(_, _)
route_length_m_multidigraph(g, route) ==
    IF Len(route) <= 1 THEN 0
    ELSE LET u == route[1]
             v == route[2]
             data == IF get_edge_data(g, u, v) # <<>> THEN get_edge_data(g, u, v)
                     ELSE get_edge_data(g, v, u)
             rest == route_length_m_multidigraph(g, Tail(route))
         IN  IF data = <<>> \/ rest = inf THEN inf ELSE MinOf(data) + rest

\* compute_route_info(G, orig_node, dest_node) at 30 km/h (dist_km in
\* metres, eta_min in ten-thousandths of a minute)
compute_route_info(g, orig_node, dest_node) ==
    IF ~has_path(g, orig_node, dest_node)
    THEN [route |-> NoRoute, dist_km |-> inf, eta_min |-> inf]
    ELSE LET route == shortest_path(g, orig_node, dest_node)
             dist_m == route_length_m_multidigraph(g, route)
         IN  IF dist_m = inf THEN [route |-> NoRoute, dist_km |-> inf, eta_min |-> inf]
             ELSE [route |-> route, dist_km |-> dist_m, eta_min |-> dist_m * 20]

\* safe_df / unsafe_df: the index labels of the low rows and of the others
safe_df(df) ==
    LET IsLow(r) == risk_lower(r.risk) = "low"
    IN  RowsWhere(df, IsLow)

unsafe_df(df) ==
    LET NotLow(r) == risk_lower(r.risk) # "low"
    IN  RowsWhere(df, NotLow)

\* one pass of the loop that takes the first two safe regions with a path,
\* in catalog order
evacuation_routes_unsorted(g, df, u) ==
    LET orig_node == nearest_nodes(g, df[u].lat)
        safe == safe_df(df)
        safe_nodes == [k \in DOMAIN safe |-> nearest_nodes(g, df[safe[k]].lat)]
        HasPath(k) == has_path(g, orig_node, safe_nodes[k])
        nearest == Take(SelectSeq([k \in DOMAIN safe |-> k], HasPath), 2)
        infos == [k \in DOMAIN nearest |->
                    compute_route_info(g, orig_node, safe_nodes[nearest[k]])]
    IN  [k \in DOMAIN nearest |->
            [row |-> safe[nearest[k]],
             origin |-> df[u].name,
             destination |-> df[safe[nearest[k]]].name,
             path |-> infos[k].route,
             distance_km |-> infos[k].dist_km,
             eta_min |-> infos[k].eta_min]]

\* one pass of the loop over unsafe_df.iterrows(): the routes drawn for
\* the origin in catalog row u
evacuation_routes_from(g, df, u) ==
    LET orig_node == nearest_nodes(g, df[u].lat)
        safe == safe_df(df)
        safe_nodes == [k \in DOMAIN safe |-> nearest_nodes(g, df[safe[k]].lat)]
        dists == [k \in DOMAIN safe_nodes |->
                    IF has_path(g, orig_node, safe_nodes[k])
                    THEN <<k, shortest_path_length(g, orig_node, safe_nodes[k])>>
                    ELSE <<k, inf>>]
        IsFinite(pair) == pair[2] # inf
        nearest_pairs == Take(Sorted(SelectSeq(dists, IsFinite), SecondOf), 2)
        infos == [k \in DOMAIN nearest_pairs |->
                    compute_route_info(g, orig_node, safe_nodes[nearest_pairs[k][1]])]
        drawn == [k \in DOMAIN nearest_pairs |->
                    [row |-> safe[nearest_pairs[k][1]],
                     origin |-> df[u].name,
                     destination |-> df[safe[nearest_pairs[k][1]]].name,
                     path |-> infos[k].route,
                     distance_km |-> infos[k].dist_km,
                     eta_min |-> infos[k].eta_min]]
        Drawn(r) == r.path # NoRoute /\ r.distance_km # inf
    IN  SelectSeq(drawn, Drawn)

-----------------------------------------------------------------------------
(* evacuation_app.py *)

\* nx.strongly_connected_components(G)
strongly_connected_components(g) ==
    { { v \in g.nodes : has_path(g, u, v) /\ has_path(g, v, u) } : u \in g.nodes }

\* G.subgraph(C).copy()
subgraph(g, C) ==
    [nodes |-> C,
     adj |-> [l \in DOMAIN g.adj |->
                IF l[1] \in C /\ l[2] \in C THEN g.adj[l] ELSE <<>>]]

\* load_data(): the graphs the truncation to the largest strongly connected
\* component can leave of g (max() keeps one of the largest components)
largest_component(g) ==
    { subgraph(g, C) :
        C \in { D \in strongly_connected_components(g) :
                  \A E \in strongly_connected_components(g) :
                      Cardinality(D) >= Cardinality(E) } }

\* sum of G[u][v][0]["length"] along path
RECURSIVE KeyZeroLength(_, _)
KeyZeroLength(g, path) ==
    IF Len(path) <= 1 THEN 0
    ELSE g.adj[<<path[1], path[2]>>][1] + KeyZeroLength(g, Tail(path))

\* the python value None of the routes slot
NoneRoutes == <<[none |-> TRUE]>>

\* key=lambda x: (x["risk"], x["distance_km"]), as one number (every
\* distance of the model is below 1000)
RiskThenDistance(route) == route.risk * 1000 + route.distance_km

\* get_two_safest_routes(user_area, G, flood_df); assign_risk_to_edges
\* set the risk of every edge to 0 (distance_km in metres, eta_min in
\* ten-thousandths of a minute)
get_two_safest_routes(user_area, g, df, res) ==
    LET best_match == res[1]
        score == res[2]
    IN  IF score < 60 THEN Result(None, NoScore, NoneRoutes, 1)
        ELSE
          LET start == FirstRow(df, best_match)
              orig_node == nearest_nodes(g, start.lat)
              IsSafe(r) == risk_lower(r.risk) \in {"low", "minimal", "safe"}
              safe_rows == RowsWhere(df, IsSafe)
              head == Take(safe_rows, 5)
              Found(i) == has_path(g, orig_node, nearest_nodes(g, df[i].lat))
              found == SelectSeq(head, Found)
              routes ==
                  [k \in DOMAIN found |->
                     LET path == shortest_path(g, orig_node,
                                               nearest_nodes(g, df[found[k]].lat))
                         length == KeyZeroLength(g, path)
                     IN  [row |-> found[k],
                          path |-> path,
                          distance_km |-> length,
                          eta_min |-> length * 20,
                          risk |-> 0]]
          IN  IF safe_rows = <<>> THEN Result(best_match, score, <<>>, 1)
              ELSE Result(best_match, score, Take(Sorted(routes, RiskThenDistance), 2), 1)

-----------------------------------------------------------------------------
(* Dashboard of app.py *)

\* st.session_state after the initialisation loop
NoSession ==
    [routes_computed |-> FALSE, best_match |-> None, match_score |-> NoScore,
     routes |-> NoneRoutes, user_region_input |-> <<>>]

\* a display that looks at the route list before the match
results_display_routes_first(s) ==
    IF s.routes_computed
    THEN IF s.routes \in {NoneRoutes, <<>>} THEN "no routes"
         ELSE IF s.best_match = None THEN "not found"
         ELSE "routes"
    ELSE "nothing"

\* the "Display results" block: which of its branches renders
results_display(s) ==
    IF s.routes_computed
    THEN IF s.best_match = None THEN "not found"
         ELSE IF s.routes \in {NoneRoutes, <<>>} THEN "no routes"
         ELSE "routes"
    ELSE "nothing"

-----------------------------------------------------------------------------
(* Regions of road nodes and road edges: map_regions_to_road_network of    *)
(* warp.py and evacuation_app_enhanced.py, edge tagging of tload.py.       *)
(* A region is written as the index of its catalog row.                    *)

\* default of the parameter region_radius_km (2.0)
region_radius_km == 2

\* distance_deg * 111.0 for region i and node n: coordinates are counted in
\* 1/111 degree, and on one meridian the Euclidean distance of the k-d tree
\* is the absolute latitude difference
tree_distance_km(df, i, n) == Abs(df[i].lat - NodeY[n])

\* tree.query(node_coord)[1]: the index of the nearest region
tree_query(df, n) ==
    CHOOSE i \in DOMAIN df :
        \A j \in DOMAIN df :
            \/ tree_distance_km(df, i, n) < tree_distance_km(df, j, n)
            \/ /\ tree_distance_km(df, i, n) = tree_distance_km(df, j, n)
               /\ i <= j

\* risk_priority.get(level, default)
risk_priority(level, default) ==
    CASE level = "low" -> 0
      [] level = "moderate" -> 1
      [] level = "high" -> 2
      [] level = "severe" -> 3
      [] level = "extreme" -> 4
      [] OTHER -> default

\* G.edges(keys=True) as a set of <<u, v, key>>
edges(g) ==
    UNION { { <<l[1], l[2], k - 1>> : k \in DOMAIN get_edge_data(g, l[1], l[2]) } :
              l \in DOMAIN g.adj }

\* the mapping with the radius test left out
map_regions_any_distance(g, df, default) ==
    LET ntr == [n \in g.nodes |-> tree_query(df, n)]
        prio(n) == risk_priority(df[ntr[n]].risk, default)
    IN  [node_to_region |-> ntr,
         edge_to_region |->
            [e \in edges(g) |->
                IF prio(e[1]) >= prio(e[2]) THEN ntr[e[1]] ELSE ntr[e[2]]]]

\* map_regions_to_road_network(G, flood_df); default is the priority the
\* program gives a risk level that is no key of risk_priority (1 in warp.py,
\* 5 in evacuation_app_enhanced.py)
map_regions_to_road_network(g, df, default) ==
    LET near == { n \in g.nodes :
                    tree_distance_km(df, tree_query(df, n), n) <= region_radius_km }
        ntr == [n \in near |-> tree_query(df, n)]
        prio(n) == risk_priority(df[ntr[n]].risk, default)
        tagged == { e \in edges(g) : e[1] \in near \/ e[2] \in near }
    IN  [node_to_region |-> ntr,
         edge_to_region |->
            [e \in tagged |->
                IF e[1] \in near /\ e[2] \in near
                THEN IF prio(e[1]) >= prio(e[2]) THEN ntr[e[1]] ELSE ntr[e[2]]
                ELSE IF e[1] \in near THEN ntr[e[1]]
                ELSE ntr[e[2]]]]

\* priority of an unknown risk level in warp.py and evacuation_app_enhanced.py
default_priority(s) == IF s = "warp" THEN 1 ELSE 5

\* rows of edges_gdf, in the order of G.edges(keys=True)
edges_gdf(g) ==
    LET Before(a, b) ==
            \/ a[1] < b[1]
            \/ a[1] = b[1] /\ a[2] < b[2]
            \/ a[1] = b[1] /\ a[2] = b[2] /\ a[3] < b[3]
        rank(e) == Cardinality({ f \in edges(g) : Before(f, e) }) + 1
    IN  [k \in 1..Cardinality(edges(g)) |->
            CHOOSE e \in edges(g) : rank(e) = k]

\* tload.py: region_idx of the rows of edges_gdf kept by iloc[::10]
edges_gdf_region_idx(g, df) ==
    LET rows == edges_gdf(g)
        kept == { rows[k] : k \in { j \in DOMAIN rows : (j - 1) % 10 = 0 } }
    IN  [e \in kept |-> nodeid_to_region_idx(g, df)[e[1]]]

\* no mapping: the program keeps none
NoMapping == <<>>

-----------------------------------------------------------------------------
(* streamlit_app_enhanced.py: find_nearest_infrastructure *)

\* load_infrastructure_data(): hospitals and bridges with their latitude,
\* highways with the latitudes of their two ends (a fresh copy at every call)
hospitals_df ==
    << [name |-> "h1", lat |-> 3], [name |-> "h2", lat |-> 5],
       [name |-> "h3", lat |-> 1], [name |-> "h4", lat |-> 0],
       [name |-> "h5", lat |-> 5], [name |-> "h6", lat |-> 12] >>

bridges_df ==
    << [name |-> "b1", lat |-> 4], [name |-> "b2", lat |-> 4], [name |-> "b3", lat |-> 2] >>

highways_df ==
    << [name |-> "w1", start_lat |-> 14, end_lat |-> 0],
       [name |-> "w2", start_lat |-> 6, end_lat |-> 9] >>

\* DataFrame.nsmallest(n, column): the n rows of least key, ties in row order
Distance(row) == row.distance
MinDistance(row) == row.min_distance

\* find_nearest_infrastructure(user_location, flood_df)
find_nearest_infrastructure(user_location, df) ==
    LET user_data == FirstRow(df, user_location)
        calculate_distance(lat1, lat2) == Abs(lat2 - lat1)
        hospitals == [k \in DOMAIN hospitals_df |->
                        [name |-> hospitals_df[k].name,
                         distance |-> calculate_distance(user_data.lat, hospitals_df[k].lat)]]
        bridges == [k \in DOMAIN bridges_df |->
                        [name |-> bridges_df[k].name,
                         distance |-> calculate_distance(user_data.lat, bridges_df[k].lat)]]
        highways == [k \in DOMAIN highways_df |->
                        [name |-> highways_df[k].name,
                         min_distance |->
                            Min(calculate_distance(user_data.lat, highways_df[k].start_lat),
                                calculate_distance(user_data.lat, highways_df[k].end_lat))]]
    IN  [fn |-> "find_nearest_infrastructure",
         user_location |-> user_location,
         nearest_hospitals |-> Take(Sorted(hospitals, Distance), 5),
         nearest_bridges |-> Take(Sorted(bridges, Distance), 5),
         nearest_highways |-> Take(Sorted(highways, MinDistance), 5)]

-----------------------------------------------------------------------------
(* Reading of the catalog file at startup: warp.py main step 2 with        *)
(* normalize_csv_data, mumbai_evacuation_real.py load_mumbai_data          *)

\* no file: the reading of the catalog is not part of the run
NoFile == [program |-> "none"]

\* mumbai_ward_area_floodrisk.csv as program prog finds it: readable or not,
\* with all its columns or not, and its rows
CsvFile(prog, readable, columns, rows) ==
    [program |-> prog, readable |-> readable, columns |-> columns, rows |-> rows]

\* the table embedded in load_mumbai_data
mumbai_data ==
    << Row(<<"A">>, 0, "High", "NA", 0),
       Row(<<"B">>, 4, "Low", "NA", 0),
       Row(<<"D">>, 19, "Medium", "NA", 0) >>

\* longest catalog file of a modelled startup
MaxRowsFile == 3

\* the files of a startup: well-formed ones, an unreadable one, one without
\* a required column, and files with text in one latitude cell
CsvFiles(prog) ==
    LET table == IF prog = "warp" THEN GraphTable ELSE mumbai_data
        tables == { t \in Selections(table, MaxRowsFile) : Len(t) >= 2 }
    IN  { CsvFile(prog, TRUE, TRUE, t) : t \in tables }
        \cup { CsvFile(prog, FALSE, TRUE, <<>>) }
        \cup { CsvFile(prog, TRUE, FALSE, t) : t \in tables }
        \cup IF prog = "warp"
             THEN { CsvFile(prog, TRUE, TRUE, [t EXCEPT ![i].lat = Text]) :
                      t \in tables, i \in {1} }
             ELSE {}

\* mumbai_evacuation_real.py: load_mumbai_data(); ok is FALSE when the
\* function raised (the assignment of five column names to a table of
\* another width)
load_mumbai_data(file) ==
    LET read == IF file.readable THEN file.rows ELSE mumbai_data
    IN  IF file.readable /\ ~file.columns THEN [ok |-> FALSE, df |-> <<>>]
        ELSE [ok |-> TRUE,
              df |-> [i \in DOMAIN read |-> [read[i] EXCEPT !.name = Lower(Strip(@))]]]

\* warp.py main, step 2: read_csv and normalize_csv_data; ok is FALSE when
\* main returned on FileNotFoundError or on the ValueError of a missing column
main_load_flood_data(file) ==
    IF ~file.readable \/ ~file.columns THEN [ok |-> FALSE, df |-> <<>>]
    ELSE [ok |-> TRUE, df |-> normalize_csv_data(file.rows)]

-----------------------------------------------------------------------------
(* The haversine formula of app.py (lines 126-134), tload.py haversine_m   *)
(* and streamlit_app_enhanced.py calculate_distance, for points off the    *)
(* meridian.  Angles are counted in steps of ten degrees, sines and        *)
(* cosines in hundredths.                                                  *)

\* 100 * sin of 0, 5, 10, ... degrees
SinHalfTab == <<0, 9, 17, 26, 34, 42, 50, 57, 64, 71>>

\* 100 * cos of 0, 10, 20, ... degrees
CosTab == <<100, 98, 94, 87, 77, 64, 50, 34, 17, 0>>

\* math.sin(d / 2): an odd function
sin_half(d) == IF d < 0 THEN 0 - SinHalfTab[1 - d] ELSE SinHalfTab[d + 1]

\* math.cos(lat): an even function
cos(lat) == CosTab[Abs(lat) + 1]

\* 2 * asin(sqrt(a)) in steps of ten degrees: the largest angle whose half
\* sine squared does not exceed a
two_asin_sqrt(a) ==
    Cardinality({ k \in DOMAIN SinHalfTab : SinHalfTab[k] * SinHalfTab[k] <= a }) - 1

\* km of arc of ten degrees: 6371 * radians(10)
EarthRadiusStep == 1112

\* the formula with the half sines left unsquared
haversine_unsquared(lat1, lon1, lat2, lon2) ==
    LET dlat == lat2 - lat1
        dlon == lon2 - lon1
        a == sin_half(dlat) * 100 + (cos(lat1) * cos(lat2) * sin_half(dlon) * 100) \div 10000
    IN  EarthRadiusStep * two_asin_sqrt(a)

\* distance_km = 6371 * c with c = 2 * asin(sqrt(a)) and
\* a = sin(dlat/2)**2 + cos(lat1) * cos(lat2) * sin(dlon/2)**2
haversine(lat1, lon1, lat2, lon2) ==
    LET dlat == lat2 - lat1
        dlon == lon2 - lon1
        a == sin_half(dlat) * sin_half(dlat)
               + (cos(lat1) * cos(lat2) * sin_half(dlon) * sin_half(dlon)) \div 10000
    IN  EarthRadiusStep * two_asin_sqrt(a)

\* the points the formula is called with
Points == [lat : 0..MaxCoord, lon : 0..MaxCoord]

-----------------------------------------------------------------------------
(* Specification of direct calls of the scoring calculators *)

NoCall == [fn |-> "none"]

NoGraph == [nodes |-> {}, adj |-> <<>>]

\* lib is the pair the similarity library returned inside the call
Returned(f, q, res, r) ==
    [fn |-> f, user_area |-> q, lib |-> res, best_match |-> r.best_match,
     score |-> r.score, routes |-> r.routes, extract_calls |-> r.extract_calls]

\* an entry point that stopped on a blank input before any matching
Stopped(f, q) ==
    [fn |-> f, user_area |-> q, lib |-> None, best_match |-> None,
     score |-> NoScore, routes |-> <<>>, extract_calls |-> 0]

all_areas(df) == Unique(Names(df))

CallApp ==
    /\ script = "app" /\ call.fn = "none"
    /\ \E q \in Queries :
         \E res \in extractOne(Lower(q), all_areas(flood_df)) :
            call' = Returned("app", q, res, app_calculate_evacuation_routes(q, flood_df, res))
    /\ UNCHANGED <<script, flood_df, G, session, node_to_region, edge_to_region, csv>>

CallReal ==
    /\ script = "real" /\ call.fn = "none"
    /\ \E q \in Queries :
         \E res \in extractOne(Lower(q), all_areas(flood_df)) :
            call' = Returned("real", q, res, real_calculate_evacuation_routes(q, flood_df, res))
    /\ UNCHANGED <<script, flood_df, G, session, node_to_region, edge_to_region, csv>>

CallComplete ==
    /\ script = "complete" /\ call.fn = "none"
    /\ \E q \in Queries :
         \E res \in extractOne(Lower(q), all_areas(flood_df)) :
            call' = Returned("complete", q, res,
                             calculate_advanced_evacuation_routes(q, flood_df, res))
    /\ UNCHANGED <<script, flood_df, G, session, node_to_region, edge_to_region, csv>>

CallStreamlit ==
    /\ script = "streamlit" /\ call.fn = "none"
    /\ \E q \in Queries :
         \E res \in extractOne(Lower(q), all_areas(flood_df)) :
            call' = Returned("streamlit", q, res,
                             streamlit_calculate_evacuation_routes(q, flood_df, res))
    /\ UNCHANGED <<script, flood_df, G, session, node_to_region, edge_to_region, csv>>

CallSimple ==
    /\ script = "simple" /\ call.fn = "none"
    /\ \E q \in Queries :
         \E res \in extractOne(Lower(q), all_areas(flood_df)) :
            call' = Returned("simple", q, res, calculate_simple_routes(q, flood_df, res))
    /\ UNCHANGED <<script, flood_df, G, session, node_to_region, edge_to_region, csv>>

\* evacuation_app_enhanced.py: __main__ from the input prompt on
RunEnhanced ==
    /\ script = "enhanced" /\ call.fn = "none"
    /\ \E typed \in Queries :
         LET user_input == Strip(typed)
         IN  IF user_input = <<>>
             THEN call' = Stopped("enhanced", typed)
             ELSE \E res \in fuzzy_extractOne(Strip(Lower(user_input)),
                                               all_areas_lower(flood_df)) :
                    LET m == fuzzy_match_region(user_input, flood_df, res)
                        routes == IF m[1] = None THEN <<>>
                                  ELSE find_safest_routes(m[1], G, flood_df)
                    IN  call' = Returned("enhanced", typed, res,
                                         Result(m[1], m[2], routes, 1))
    /\ UNCHANGED <<script, flood_df, G, session, node_to_region, edge_to_region, csv>>

CallWarp ==
    /\ script = "warp" /\ call.fn = "none"
    /\ \E q \in Queries :
         \E res \in fuzzy_extractOne(Strip(Lower(q)), all_areas_lower(flood_df)) :
            call' = Returned("warp", q, res,
                             find_user_location_and_routes(q, G, flood_df, res))
    /\ UNCHANGED <<script, flood_df, G, session, node_to_region, edge_to_region, csv>>

CallTload ==
    /\ script = "tload" /\ call.fn = "none"
    /\ \E q \in Queries :
         \E res \in fuzzy_extractOne(Strip(Lower(q)), Names(flood_df)) :
            call' = Returned("tload", q, res,
                             find_two_safest_routes_for_user(q, G, flood_df, res))
    /\ UNCHANGED <<script, flood_df, G, session, node_to_region, edge_to_region, csv>>

CallEvac ==
    /\ script = "evacuation_app" /\ call.fn = "none"
    /\ \E q \in Queries :
         \E res \in extractOne(Lower(q), all_areas(flood_df)) :
            call' = Returned("evacuation_app", q, res,
                             get_two_safest_routes(q, G, flood_df, res))
    /\ UNCHANGED <<script, flood_df, G, session, node_to_region, edge_to_region, csv>>

\* llload.py: the next pass of the loop over unsafe_df.iterrows()
LlloadOrigin ==
    /\ script = "llload"
    /\ LET done == IF call.fn = "none" THEN 0 ELSE call.pass
       IN  /\ done < Len(unsafe_df(flood_df))
           /\ call' = [fn |-> "llload", pass |-> done + 1,
                        origin |-> unsafe_df(flood_df)[done + 1],
                        routes |-> evacuation_routes_from(
                                      G, flood_df, unsafe_df(flood_df)[done + 1])]
    /\ UNCHANGED <<script, flood_df, G, session, node_to_region, edge_to_region, csv>>

\* app.py: the FIND EVACUATION ROUTES button with user_region in the text box
Find ==
    /\ script = "app_ui"
    /\ \E user_region \in Queries :
         IF Strip(user_region) = <<>>
         THEN /\ session' = [session EXCEPT !.routes_computed = FALSE]
              /\ call' = Stopped("app_find", user_region)
         ELSE \E res \in extractOne(Lower(user_region), all_areas(flood_df)) :
                LET r == app_calculate_evacuation_routes(user_region, flood_df, res)
                IN  /\ session' = [routes_computed |-> TRUE,
                                    best_match |-> r.best_match,
                                    match_score |-> r.score,
                                    routes |-> r.routes,
                                    user_region_input |-> user_region]
                    /\ call' = Returned("app_find", user_region, res, r)
    /\ UNCHANGED <<script, flood_df, G, node_to_region, edge_to_region, csv>>

\* app.py: the Clear Results button
ClearResults ==
    /\ script = "app_ui"
    /\ session' = NoSession
    /\ call' = NoCall
    /\ UNCHANGED <<script, flood_df, G, node_to_region, edge_to_region, csv>>

\* mumbai_evacuation_complete.py: the quick-select list, as the lower-cased
\* names its buttons store
quick_areas == { <<"a">>, <<"d", " ", "w">> }

\* mumbai_evacuation_complete.py: the search button with user_region in the
\* text box (emergency_mode only changes the label, last_search_time only the
\* caption below the buttons)
FindComplete ==
    /\ script = "complete_ui"
    /\ \E user_region \in Queries :
         IF Strip(user_region) = <<>>
         THEN /\ session' = [session EXCEPT !.routes_computed = FALSE]
              /\ call' = Stopped("complete_find", user_region)
         ELSE \E res \in extractOne(Lower(user_region), all_areas(flood_df)) :
                LET r == calculate_advanced_evacuation_routes(user_region, flood_df, res)
                IN  /\ session' = [routes_computed |-> TRUE,
                                    best_match |-> r.best_match,
                                    match_score |-> r.score,
                                    routes |-> r.routes,
                                    user_region_input |-> user_region]
                    /\ call' = Returned("complete_find", user_region, res, r)
    /\ UNCHANGED <<script, flood_df, G, node_to_region, edge_to_region, csv>>

\* mumbai_evacuation_complete.py: the Clear Results button
ClearResultsComplete ==
    /\ script = "complete_ui"
    /\ session' = NoSession
    /\ call' = NoCall
    /\ UNCHANGED <<script, flood_df, G, node_to_region, edge_to_region, csv>>

\* mumbai_evacuation_complete.py: one of the Quick Select buttons
QuickSelect ==
    /\ script = "complete_ui"
    /\ \E area \in quick_areas :
         session' = [session EXCEPT !.user_region_input = area]
    /\ UNCHANGED <<script, flood_df, G, call, node_to_region, edge_to_region, csv>>

\* process.extract(query, choices, limit=5): the choices it lists
suggestion_limit == 5

\* mumbai_evacuation_complete.py: one of the "Did you mean" buttons of the
\* 'not found' display
SuggestionButton ==
    /\ script = "complete_ui"
    /\ session.routes_computed
    /\ session.best_match = None
    /\ \E listed \in SUBSET DOMAIN flood_df :
         /\ Cardinality(listed) = Min(suggestion_limit, Len(flood_df))
         /\ \E i \in listed :
              session' = [session EXCEPT !.user_region_input = flood_df[i].name]
    /\ UNCHANGED <<script, flood_df, G, call, node_to_region, edge_to_region, csv>>

\* streamlit_app.py and streamlit_app_enhanced.py: the search button with
\* user_region in the text box (user_input is kept in user_region_input)
FindStreamlit ==
    /\ script = "streamlit_ui"
    /\ \E user_region \in Queries :
         IF Strip(user_region) = <<>>
         THEN /\ session' = session
              /\ call' = Stopped("streamlit_find", user_region)
         ELSE \E res \in extractOne(Lower(user_region), all_areas(flood_df)) :
                LET r == streamlit_calculate_evacuation_routes(user_region, flood_df, res)
                IN  /\ session' = [routes_computed |-> TRUE,
                                    best_match |-> r.best_match,
                                    match_score |-> r.score,
                                    routes |-> r.routes,
                                    user_region_input |-> user_region]
                    /\ call' = Returned("streamlit_find", user_region, res, r)
    /\ UNCHANGED <<script, flood_df, G, node_to_region, edge_to_region, csv>>

\* streamlit_app.py and streamlit_app_enhanced.py: the Clear Results button
ClearResultsStreamlit ==
    /\ script = "streamlit_ui"
    /\ session' = [session EXCEPT !.routes_computed = FALSE,
                                  !.user_region_input = <<>>]
    /\ call' = NoCall
    /\ UNCHANGED <<script, flood_df, G, node_to_region, edge_to_region, csv>>

\* streamlit_app_enhanced.py: calculate_evacuation_routes(user_region, flood_df),
\* the calculator of streamlit_app.py
CallStreamlitEnhanced ==
    /\ script = "streamlit_enhanced" /\ call.fn = "none"
    /\ \E q \in Queries :
         \E res \in extractOne(Lower(q), all_areas(flood_df)) :
            call' = Returned("streamlit_enhanced", q, res,
                             streamlit_calculate_evacuation_routes(q, flood_df, res))
    /\ UNCHANGED <<script, flood_df, G, session, node_to_region, edge_to_region, csv>>

\* a lookup that writes its distance column into the catalog
FindNearestInfrastructureInPlace ==
    /\ script = "streamlit_enhanced"
    /\ call.fn = "streamlit_enhanced" /\ call.best_match # None
    /\ call' = find_nearest_infrastructure(call.best_match, flood_df)
    /\ flood_df' = [i \in DOMAIN flood_df |->
                      [flood_df[i] EXCEPT
                          !.lat = Abs(@ - FirstRow(flood_df, call.best_match).lat)]]
    /\ UNCHANGED <<script, G, session, node_to_region, edge_to_region, csv>>

\* streamlit_app_enhanced.py: the nearest-infrastructure lookup for the
\* resolved start of the last route query
FindNearestInfrastructure ==
    /\ script = "streamlit_enhanced"
    /\ call.fn = "streamlit_enhanced" /\ call.best_match # None
    /\ call' = find_nearest_infrastructure(call.best_match, flood_df)
    /\ UNCHANGED <<script, flood_df, G, session, node_to_region, edge_to_region, csv>>

\* a direct call of the haversine formula for two points
CallHaversine ==
    /\ script = "haversine" /\ call.fn = "none"
    /\ \E A \in Points :
         \E B \in Points :
            call' = [fn |-> "haversine", A |-> A, B |-> B,
                     distance_km |-> haversine(A.lat, A.lon, B.lat, B.lon)]
    /\ UNCHANGED <<script, flood_df, G, session, node_to_region, edge_to_region, csv>>

\* the caller drops the returned tuple
Discard ==
    /\ script \notin {"app_ui", "complete_ui", "streamlit_ui", "llload"}
    /\ call.fn # "none"
    /\ call' = NoCall
    /\ UNCHANGED <<script, flood_df, G, session, node_to_region, edge_to_region, csv>>

InitCalc ==
    /\ \/ /\ script \in {"app", "real"}
          /\ flood_df \in Arrangements(BasicPool, MaxAreas)
       \/ /\ script \in {"complete", "streamlit"}
          /\ flood_df \in Selections(AdvTable, MaxAreasAdv)
    /\ G = NoGraph
    /\ call = NoCall
    /\ session = NoSession
    /\ node_to_region = NoMapping
    /\ edge_to_region = NoMapping
    /\ csv = NoFile

InitSimple ==
    /\ script = "simple"
    /\ flood_df \in Selections(SimpleTable, MaxAreasSimple)
    /\ G = NoGraph
    /\ call = NoCall
    /\ session = NoSession
    /\ node_to_region = NoMapping
    /\ edge_to_region = NoMapping
    /\ csv = NoFile

InitDash ==
    /\ \/ /\ script = "app_ui"
          /\ flood_df \in Arrangements(BasicPool, MaxAreasDash)
       \/ /\ script \in {"complete_ui", "streamlit_ui"}
          /\ flood_df \in Selections(AdvTable, MaxAreasDash)
    /\ G = NoGraph
    /\ call = NoCall
    /\ session = NoSession
    /\ node_to_region = NoMapping
    /\ edge_to_region = NoMapping
    /\ csv = NoFile

InitHaversine ==
    /\ script = "haversine"
    /\ flood_df = <<>>
    /\ G = NoGraph
    /\ call = NoCall
    /\ session = NoSession
    /\ node_to_region = NoMapping
    /\ edge_to_region = NoMapping
    /\ csv = NoFile

InitInfra ==
    /\ script = "streamlit_enhanced"
    /\ flood_df \in Selections(AdvTable, MaxAreasInfra)
    /\ G = NoGraph
    /\ call = NoCall
    /\ session = NoSession
    /\ node_to_region = NoMapping
    /\ edge_to_region = NoMapping
    /\ csv = NoFile

InitGraph ==
    /\ \/ /\ script \in {"enhanced", "warp"}
          /\ flood_df \in { normalize_csv_data(raw) :
                              raw \in Selections(GraphTable, MaxAreasGraph) }
       \/ /\ script = "tload"
          /\ flood_df \in { normalize_columns(raw) :
                              raw \in Selections(GraphTable, MaxAreasGraph) }
       \/ /\ script = "llload"
          /\ flood_df \in Selections(GraphTable, MaxAreasGraph)
    /\ G \in RoadGraphs
    /\ call = NoCall
    /\ session = NoSession
    /\ node_to_region =
          IF script \in {"enhanced", "warp"}
          THEN map_regions_to_road_network(G, flood_df, default_priority(script)).node_to_region
          ELSE IF script = "tload" THEN nodeid_to_region_idx(G, flood_df)
          ELSE NoMapping
    /\ edge_to_region =
          IF script \in {"enhanced", "warp"}
          THEN map_regions_to_road_network(G, flood_df, default_priority(script)).edge_to_region
          ELSE IF script = "tload" THEN edges_gdf_region_idx(G, flood_df)
          ELSE NoMapping
    /\ csv = NoFile

\* startup of warp.py and mumbai_evacuation_real.py from a catalog file that
\* may be unreadable, lack a column or hold text in a coordinate cell; a
\* program whose startup stopped is "exited"
InitLoad ==
    /\ \E prog \in {"warp", "real"} :
         \E file \in CsvFiles(prog) :
            LET res == IF prog = "warp" THEN main_load_flood_data(file)
                       ELSE load_mumbai_data(file)
            IN  /\ csv = file
                /\ script = IF res.ok THEN prog ELSE "exited"
                /\ flood_df = res.df
    /\ G \in IF csv.program = "warp" THEN RoadGraphs ELSE {NoGraph}
    /\ call = NoCall
    /\ session = NoSession
    /\ node_to_region =
          IF script = "warp"
          THEN map_regions_to_road_network(G, flood_df, default_priority(script)).node_to_region
          ELSE NoMapping
    /\ edge_to_region =
          IF script = "warp"
          THEN map_regions_to_road_network(G, flood_df, default_priority(script)).edge_to_region
          ELSE NoMapping

InitEvac ==
    /\ script = "evacuation_app"
    /\ flood_df \in Selections(EvacTable, MaxAreasEvac)
    /\ G \in UNION { largest_component(g) : g \in RoadGraphs }
    /\ call = NoCall
    /\ session = NoSession
    /\ node_to_region = NoMapping
    /\ edge_to_region = NoMapping
    /\ csv = NoFile

Init ==
    InitCalc \/ InitSimple \/ InitDash \/ InitInfra \/ InitGraph \/ InitLoad \/ InitEvac
    \/ InitHaversine

Next ==
    \/ CallApp \/ CallReal \/ CallComplete \/ CallStreamlit \/ CallSimple
    \/ RunEnhanced \/ CallWarp \/ CallTload \/ CallEvac \/ LlloadOrigin
    \/ Find \/ ClearResults
    \/ FindComplete \/ ClearResultsComplete \/ QuickSelect \/ SuggestionButton
    \/ FindStreamlit \/ ClearResultsStreamlit
    \/ CallStreamlitEnhanced \/ FindNearestInfrastructure
    \/ CallHaversine
    \/ Discard

Spec == Init /\ [][Next]_vars

-----------------------------------------------------------------------------
(* Properties of the scoring calculators *)

ScoringFns == {"app", "real", "complete", "streamlit"}

PriorityFns == {"complete", "streamlit"}

\* a scoring calculator returned with a resolved start area
Resolved == call.fn \in ScoringFns /\ call.best_match # None

\* the score field a returned route carries
ScoreOf(route) ==
    IF call.fn \in PriorityFns THEN route.route_score ELSE route.combined_score

\* C1: in the scoring calculators no returned route has the resolved start
\* area as its destination, neither as catalog row nor as displayed name.
C1_SelfExclusion ==
    Resolved =>
        \A k \in DOMAIN call.routes :
            /\ flood_df[call.routes[k].row].name # call.best_match
            /\ call.routes[k].destination # Title(call.best_match)

\* the start "b" is listed twice, both rows Low/Medium, and routes are returned
C1_Witness ==
    /\ call.fn = "app"
    /\ call.best_match = <<"b">>
    /\ Cardinality({i \in DOMAIN flood_df : flood_df[i].name = <<"b">>}) = 2
    /\ call.routes # <<>>

\* the catalog row the resolved start name selects (.iloc[0] / .index)
StartIndex ==
    CHOOSE i \in DOMAIN flood_df :
        /\ flood_df[i].name = call.best_match
        /\ \A j \in 1..(i - 1) : flood_df[j].name # call.best_match

LowRiskFns == {"simple", "enhanced", "tload"}

\* the risk levels the running low-risk ranker takes as destinations
SafeLevels ==
    IF call.fn \in {"simple", "evacuation_app"} THEN {"low", "minimal", "safe"}
    ELSE {"low"}

\* C2: in calculate_simple_routes, find_safest_routes and
\* find_two_safest_routes_for_user a low-risk resolved start is not among
\* the returned destinations, and a catalog whose only record is the start
\* yields an empty route list.
C2_LowRiskStartExcluded ==
    (/\ call.fn \in LowRiskFns
     /\ call.best_match # None
     /\ risk_lower(flood_df[StartIndex].risk) \in SafeLevels) =>
        /\ \A k \in DOMAIN call.routes :
              flood_df[call.routes[k].row].name # call.best_match
        /\ Len(flood_df) = 1 => call.routes = <<>>

\* C3: every returned route has risk_level Low or Medium (the risk of its
\* catalog row), and in the calculators with an Evacuation_Priority column
\* also evacuation_priority Safe or Standard.
C3_SafetyFilter ==
    call.fn \in ScoringFns =>
        \A k \in DOMAIN call.routes :
            /\ call.routes[k].risk_level \in {"Low", "Medium"}
            /\ call.routes[k].risk_level = flood_df[call.routes[k].row].risk
            /\ call.fn \in PriorityFns =>
                  /\ call.routes[k].evacuation_priority \in {"Safe", "Standard"}
                  /\ call.routes[k].evacuation_priority = flood_df[call.routes[k].row].prio

\* routes are returned from a catalog that also lists a Low-risk area of
\* Immediate priority and a High-risk area, neither being the start
C3_Witness ==
    /\ call.fn = "complete"
    /\ call.routes # <<>>
    /\ \E i, j \in DOMAIN flood_df :
          /\ flood_df[i].risk = "Low" /\ flood_df[i].prio = "Immediate"
          /\ flood_df[j].risk = "High"
          /\ flood_df[i].name # call.best_match
          /\ flood_df[j].name # call.best_match

\* C4: the score field is non-decreasing along every returned route list.
C4_RankingOrder ==
    call.fn \in ScoringFns =>
        \A k \in 1..(Len(call.routes) - 1) :
            ScoreOf(call.routes[k]) <= ScoreOf(call.routes[k + 1])

\* the best route comes from a later catalog row than the second best
C4_Witness ==
    /\ call.fn = "real"
    /\ Len(call.routes) >= 2
    /\ call.routes[1].row > call.routes[2].row
    /\ ScoreOf(call.routes[1]) < ScoreOf(call.routes[2])

\* the rows that pass the candidate filter for the resolved start
EligibleRows ==
    { i \in DOMAIN flood_df :
        /\ flood_df[i].risk \in {"Low", "Medium"}
        /\ flood_df[i].name # call.best_match
        /\ call.fn \in PriorityFns => flood_df[i].prio \in {"Safe", "Standard"} }

ReturnedRows == { call.routes[k].row : k \in DOMAIN call.routes }

TopK == IF call.fn \in PriorityFns THEN 5 ELSE 3

\* the score the running calculator gives catalog row i
ScoreOfRow(i) ==
    LET start == FirstRow(flood_df, call.best_match)
    IN  CASE call.fn = "app" -> app_route(flood_df, start, i).combined_score
          [] call.fn = "real" -> real_route(flood_df, start, i).combined_score
          [] call.fn = "complete" -> advanced_route(flood_df, start, i).route_score
          [] call.fn = "streamlit" -> streamlit_route(flood_df, start, i).route_score

\* C5: with n eligible candidates exactly min(K, n) routes are returned, each
\* for a different eligible row, and no eligible row left out has a score
\* strictly lower than a returned route.
C5_SortThenTruncate ==
    Resolved =>
        /\ Len(call.routes) = Min(TopK, Cardinality(EligibleRows))
        /\ ReturnedRows \subseteq EligibleRows
        /\ Cardinality(ReturnedRows) = Len(call.routes)
        /\ \A i \in EligibleRows \ ReturnedRows :
              \A k \in DOMAIN call.routes : ScoreOfRow(i) >= ScoreOf(call.routes[k])

\* more than five eligible rows, and a row left out precedes a better one
C5_Witness ==
    /\ call.fn = "streamlit"
    /\ call.best_match # None
    /\ Cardinality(EligibleRows) > 5
    /\ \E i \in EligibleRows \ ReturnedRows :
          \E k \in DOMAIN call.routes :
              i < call.routes[k].row /\ ScoreOfRow(i) > ScoreOf(call.routes[k])

\* the safe rows of the catalog of a low-risk ranker
SafeRows == { i \in DOMAIN flood_df : risk_lower(flood_df[i].risk) \in SafeLevels }

\* the sort key of safe row i as the running ranker computes it
KeyOfRow(i) ==
    IF call.fn = "simple" THEN simple_route(flood_df, flood_df[StartIndex], i).distance_km
    ELSE KeyZeroLength(G, shortest_path(G, nearest_nodes(G, flood_df[StartIndex].lat),
                                        nearest_nodes(G, flood_df[i].lat)))

\* C6: calculate_simple_routes and get_two_safest_routes return the top 2
\* of all safe candidates: min(2, n) routes, and no safe candidate left out
\* is strictly nearer to the start than a returned one.
C6_TopTwoOfAllSafe ==
    (call.fn \in {"simple", "evacuation_app"} /\ call.best_match # None) =>
        /\ Len(call.routes) = Min(2, Cardinality(SafeRows))
        /\ \A i \in SafeRows \ ReturnedRows :
              \A k \in DOMAIN call.routes : KeyOfRow(i) >= call.routes[k].distance_km

ThresholdFns == {"app", "app_find", "tload", "enhanced", "complete"}

\* the acceptance threshold of a variant
Threshold(fn) ==
    CASE fn \in {"app", "app_find", "tload"} -> 50
      [] fn = "enhanced" -> 60
      [] fn = "complete" -> 40

\* the similarity the library reported inside the call, in tenths of a point
LibScore == IF call.fn \in {"tload", "enhanced"} THEN call.lib[2] ELSE call.lib[2] * 10

\* C7: a best-match score equal to the variant's threshold is accepted and
\* resolves to the matched area; a score one point below is rejected.
C7_ThresholdInclusive ==
    (call.fn \in ThresholdFns /\ call.extract_calls = 1) =>
        /\ LibScore = Threshold(call.fn) * 10 =>
              /\ call.best_match # None
              /\ Lower(call.best_match) = Lower(call.lib[1])
        /\ LibScore = (Threshold(call.fn) - 1) * 10 => call.best_match = None

\* a score of exactly 50 resolved the start and routes were ranked
C7_Witness ==
    /\ call.fn = "app"
    /\ call.lib[2] = 50
    /\ call.best_match = call.lib[1]
    /\ call.routes # <<>>

\* C8: an empty or whitespace-only query ends in no match and extractOne is
\* never invoked for it, through the entry points and in a direct call of
\* the route function alike.
C8_BlankShortCircuit ==
    (call.fn \in {"app", "app_find", "enhanced"} /\ IsBlank(call.user_area)) =>
        /\ call.extract_calls = 0
        /\ call.best_match = None
        /\ call.routes = <<>>

\* C9: in app.py an unresolved start gives a null match and no route, a
\* resolved start without eligible destination a match and an empty list,
\* and the display renders exactly one of 'not found', 'no routes' and the
\* route list, 'not found' if and only if the match is null.
C9_OutcomesExclusive ==
    /\ call.fn \in {"app", "app_find"} =>
          /\ call.best_match = None => call.routes = <<>>
          /\ call.best_match # None => (call.routes = <<>> <=> EligibleRows = {})
    /\ (script = "app_ui" /\ session.routes_computed) =>
          /\ results_display(session) \in {"not found", "no routes", "routes"}
          /\ results_display(session) = "not found" <=> session.best_match = None
          /\ results_display(session) = "no routes" <=>
                (session.best_match # None /\ session.routes = <<>>)
          /\ results_display(session) = "routes" <=>
                (session.best_match # None /\ session.routes # <<>>)

\* the dashboard shows 'no routes' for a resolved High-risk start
C9_Witness ==
    /\ script = "app_ui"
    /\ session.routes_computed
    /\ session.best_match # None
    /\ session.routes = <<>>
    /\ results_display(session) = "no routes"

\* a road-graph ranker returned for a resolved origin
RoadReturned ==
    \/ call.fn \in {"warp", "enhanced"} /\ call.best_match # None
    \/ call.fn = "llload"

\* the node routing starts from
OriginNode ==
    IF call.fn = "llload" THEN nearest_nodes(G, flood_df[call.origin].lat)
    ELSE nearest_nodes(G, flood_df[StartIndex].lat)

\* the destination candidates of the running road-graph ranker
CandidateRows ==
    LET rows == IF call.fn = "llload" THEN safe_df(flood_df) ELSE safe_regions(flood_df)
    IN  { rows[k] : k \in DOMAIN rows }

CandidateNode(i) == nearest_nodes(G, flood_df[i].lat)

HasRoute(i) == has_path(G, OriginNode, CandidateNode(i))

\* candidate i is returned, or two routes no longer than its own are
RankedIn(i) ==
    \/ i \in ReturnedRows
    \/ /\ Len(call.routes) = 2
       /\ \A k \in DOMAIN call.routes :
             call.routes[k].distance_km <= shortest_path_length(G, OriginNode, CandidateNode(i))

PathRoutes ==
    IF call.fn = "llload" THEN call.routes
    ELSE IF call.fn \in {"tload", "evacuation_app"} /\ call.best_match # None
         THEN call.routes
    ELSE <<>>

\* C11: the length reported for a route is the sum over its hops of the
\* least length among the parallel edges of the hop, and so equals the
\* weight of the shortest path the length-weighted search found.
C11_MinOverParallelEdges ==
    \A k \in DOMAIN PathRoutes :
        LET r == PathRoutes[k]
        IN  /\ r.distance_km = PathWeight(G, r.path)
            /\ r.distance_km = shortest_path_length(G, r.path[1], r.path[Len(r.path)])

\* C12: after graph load the road graph of evacuation_app.py, warp.py and
\* tload.py is one strongly connected component, so a directed path exists
\* between every two nodes that can become start or destination node.
C12_LargestComponentOnly ==
    script \in {"evacuation_app", "warp", "tload"} =>
        \A u, v \in G.nodes : has_path(G, u, v)

\* C13: in warp.py and evacuation_app_enhanced.py a road node has a region
\* exactly when its nearest catalog area lies within region_radius_km of it
\* (distance as the mapping measures it), and its region is then that
\* nearest area; a node farther than the radius from every area has none.
C13_RegionWithinRadius ==
    script \in {"warp", "enhanced"} =>
        \A n \in G.nodes :
            LET d(i) == tree_distance_km(flood_df, i, n)
            IN  IF n \in DOMAIN node_to_region
                THEN /\ d(node_to_region[n]) <= region_radius_km
                     /\ \A j \in DOMAIN flood_df : d(node_to_region[n]) <= d(j)
                ELSE \A j \in DOMAIN flood_df : d(j) > region_radius_km

\* a node exactly on the radius of its nearest area has that region, while
\* another node of the same graph has none
C13_Witness ==
    /\ script = "warp"
    /\ \E n \in DOMAIN node_to_region :
           tree_distance_km(flood_df, node_to_region[n], n) = region_radius_km
    /\ \E n \in G.nodes : n \notin DOMAIN node_to_region

\* severity of a risk label: Low < Medium/Moderate < High < Critical/Severe
\* < Extreme
Severity(level) ==
    CASE level = "low" -> 0
      [] level \in {"medium", "moderate"} -> 1
      [] level = "high" -> 2
      [] level \in {"critical", "severe"} -> 3
      [] level = "extreme" -> 4

\* the tagged edges whose two endpoints lie in different regions
CrossRegionEdges ==
    { e \in DOMAIN edge_to_region :
        /\ e[1] \in DOMAIN node_to_region
        /\ e[2] \in DOMAIN node_to_region
        /\ node_to_region[e[1]] # node_to_region[e[2]] }

\* C14: a road edge whose endpoints lie in different regions carries the
\* region of one of its endpoints, and no endpoint's region is more severe
\* than the one it carries, whatever the two risk labels of the catalog are.
C14_HigherSeverityEndpoint ==
    script \in {"warp", "enhanced", "tload"} =>
        \A e \in CrossRegionEdges :
            LET sev(i) == Severity(flood_df[i].risk)
            IN  /\ edge_to_region[e] \in {node_to_region[e[1]], node_to_region[e[2]]}
                /\ sev(edge_to_region[e]) >= sev(node_to_region[e[1]])
                /\ sev(edge_to_region[e]) >= sev(node_to_region[e[2]])

\* the reported ETA of a route, in tenths of a minute
EtaOf(fn, r) == IF fn \in {"app", "real"} THEN r.eta_min ELSE r.eta_minutes

\* base speed of the distance bracket of a candidate
TierSpeed(fn, d) ==
    IF fn \in {"app", "real"}
    THEN IF d < 5 THEN 15 ELSE IF d < 15 THEN 25 ELSE 35
    ELSE IF d < 3 THEN 12 ELSE IF d < 8 THEN 18 ELSE IF d < 15 THEN 25 ELSE 35

\* the routes of a returned call of a direct-line calculator
ScoredRoutes == IF call.fn \in ScoringFns /\ Resolved THEN call.routes ELSE <<>>

\* C15 as stated: the reported ETA lies between 1.3 and 1.4 times the naive
\* estimate distance_km / tier base speed * 60 (to the reported decimal).
C15_AsStated ==
    \A k \in DOMAIN ScoredRoutes :
        LET r == ScoredRoutes[k]
            speed == TierSpeed(call.fn, r.distance_km)
        IN  /\ RoundDiv(r.distance_km * 60 * 13, speed) <= EtaOf(call.fn, r)
            /\ EtaOf(call.fn, r) <= RoundDiv(r.distance_km * 60 * 14, speed)

\* C15: the reported ETA is the naive estimate distance_km / speed * 60 times
\* an emergency factor, rounded to one decimal: factor 1.3 at the tier base
\* speed in app.py and mumbai_evacuation_real.py, factor 1.4 at 0.7 times the
\* tier base speed in mumbai_evacuation_complete.py and streamlit_app.py.
C15_EmergencyFactor ==
    \A k \in DOMAIN ScoredRoutes :
        LET r == ScoredRoutes[k]
            speed == TierSpeed(call.fn, r.distance_km)
        IN  EtaOf(call.fn, r) =
                IF call.fn \in {"app", "real"}
                THEN RoundDiv(r.distance_km * 60 * 13, speed)
                ELSE RoundDiv(r.distance_km * 60 * 14 * 10, speed * 7)

\* mumbai_evacuation_complete.py returned a route of the highest tier and a
\* route of the lowest tier with a positive distance
C15_Witness ==
    /\ call.fn = "complete"
    /\ \E k \in DOMAIN ScoredRoutes : ScoredRoutes[k].distance_km >= 15
    /\ \E k \in DOMAIN ScoredRoutes :
           ScoredRoutes[k].distance_km > 0 /\ ScoredRoutes[k].distance_km < 3

\* rank of the flood risk of a destination, safest first
RiskRank(level) ==
    CASE level = "Low" -> 1 [] level = "Medium" -> 2 [] level = "High" -> 3
      [] level = "Critical" -> 4

\* the destination row, the distance and the score of the k-th returned route
DestOf(k) == flood_df[ScoredRoutes[k].row]

\* routes j and k have the same distance, destination risk or density
SameDistance(j, k) == ScoredRoutes[j].distance_km = ScoredRoutes[k].distance_km
SameRisk(j, k) == DestOf(j).risk = DestOf(k).risk
SameDensity(j, k) == DestOf(j).dens = DestOf(k).dens

\* C16: of two candidates scored for the same start that differ in one
\* factor only, the one with the lower destination risk never has the higher
\* score, and the one with the larger distance or the larger destination
\* population density never has the lower score.
C16_SignConvention ==
    \A j, k \in DOMAIN ScoredRoutes :
        LET sj == ScoreOf(ScoredRoutes[j])
            sk == ScoreOf(ScoredRoutes[k])
        IN  /\ SameDistance(j, k) /\ SameDensity(j, k)
               /\ RiskRank(DestOf(j).risk) < RiskRank(DestOf(k).risk) => sj <= sk
            /\ SameRisk(j, k) /\ SameDensity(j, k)
               /\ ScoredRoutes[j].distance_km > ScoredRoutes[k].distance_km => sj >= sk
            /\ SameRisk(j, k) /\ SameDistance(j, k)
               /\ DestOf(j).dens > DestOf(k).dens => sj >= sk

\* mumbai_evacuation_complete.py returned three pairs of routes that differ
\* in the destination risk only, in the distance only and in the density only
C16_Witness ==
    /\ call.fn = "complete"
    /\ \E j, k \in DOMAIN ScoredRoutes :
           /\ SameDistance(j, k) /\ SameDensity(j, k)
           /\ RiskRank(DestOf(j).risk) < RiskRank(DestOf(k).risk)
    /\ \E j, k \in DOMAIN ScoredRoutes :
           /\ SameRisk(j, k) /\ SameDensity(j, k)
           /\ ScoredRoutes[j].distance_km > ScoredRoutes[k].distance_km
    /\ \E j, k \in DOMAIN ScoredRoutes :
           /\ SameRisk(j, k) /\ SameDistance(j, k)
           /\ DestOf(j).dens > DestOf(k).dens

\* C17: two returned routes of equal sort key stand in catalog order, and an
\* eligible row left out by the top-K cut whose key equals the key of a
\* returned route comes later in the catalog than that route's row.
C17_TiesInCatalogOrder ==
    Resolved =>
        /\ \A j, k \in DOMAIN call.routes :
              j < k /\ ScoreOf(call.routes[j]) = ScoreOf(call.routes[k])
                  => call.routes[j].row < call.routes[k].row
        /\ \A i \in EligibleRows \ ReturnedRows :
              \A k \in DOMAIN call.routes :
                  ScoreOfRow(i) = ScoreOf(call.routes[k]) => call.routes[k].row < i

\* app.py or mumbai_evacuation_complete.py returned K routes, and the key of
\* the last one equals the key of an eligible row the cut left out
C17_Witness ==
    /\ call.fn \in {"app", "complete"}
    /\ Resolved
    /\ Len(call.routes) = TopK
    /\ \E i \in EligibleRows \ ReturnedRows :
           ScoreOfRow(i) = ScoreOf(call.routes[TopK])

\* C18: no step of any program changes its catalog: route queries, dashboard
\* submissions and clears, and nearest-infrastructure lookups leave flood_df
\* as the loader left it.
C18_CatalogUnchanged == [][flood_df' = flood_df]_vars

\* a nearest-infrastructure lookup followed a route query and cut the
\* hospital list to five
C18_Witness ==
    /\ call.fn = "find_nearest_infrastructure"
    /\ Len(call.nearest_hospitals) = 5
    /\ Len(flood_df) > 1

\* a catalog file that fails validation: unreadable, without a required
\* column, or with a coordinate that is no number
FailsValidation(file) ==
    /\ file # NoFile
    /\ \/ ~file.readable
       \/ ~file.columns
       \/ \E i \in DOMAIN file.rows : file.rows[i].lat = Text

\* C19: a program whose catalog file failed validation at load has stopped
\* at startup and never serves a query.
C19_InvalidCatalogAborts ==
    FailsValidation(csv) => script = "exited" /\ call = NoCall

\* the programs whose route function resolves a free-text start
ResolverFns ==
    {"app", "real", "complete", "streamlit", "streamlit_enhanced", "simple",
     "enhanced", "warp", "tload", "evacuation_app"}

\* the catalog rows whose name the query varies in case or surrounding
\* whitespace only
VariationOf(q) ==
    { i \in DOMAIN flood_df : Lower(Strip(flood_df[i].name)) = Lower(Strip(q)) }

\* confidence 100 as the running program keeps it (warp.py keeps the float of
\* the library, here in tenths)
FullConfidence == IF call.fn = "warp" THEN 100 * 10 ELSE 100

C21_DistanceSymmetric ==
    call.fn = "haversine" =>
        /\ call.distance_km = haversine(call.B.lat, call.B.lon, call.A.lat, call.A.lon)
        /\ call.A = call.B => call.distance_km = 0

\* the formula was called for two points that differ in latitude and in
\* longitude, the second one south-west of the first, and gave a distance
C21_Witness ==
    /\ call.fn = "haversine"
    /\ call.B.lat < call.A.lat /\ call.B.lon < call.A.lon
    /\ call.distance_km > 0

\* find_two_safest_routes_for_user returned for a resolved start
TloadReturned == call.fn = "tload" /\ call.best_match # None

\* the region of node n is a low-risk region
InLowRegion(n) == flood_df[node_to_region[n]].risk = "low"

\* C22: find_two_safest_routes_for_user returns at most two routes; they end
\* in different low-risk regions, each at a node reachable from the start
\* node that no reachable node of the same region beats in shortest-path
\* length, and they stand in non-decreasing order of that length.
C22_TwoNearestLowRegions ==
    TloadReturned =>
        /\ Len(call.routes) <= 2
        /\ \A k \in DOMAIN call.routes :
              LET r == call.routes[k]
              IN  /\ InLowRegion(r.dest_node)
                  /\ node_to_region[r.dest_node] = r.dest_region_idx
                  /\ has_path(G, OriginNode, r.dest_node)
                  /\ r.distance_km = shortest_path_length(G, OriginNode, r.dest_node)
                  /\ \A n \in G.nodes :
                        /\ node_to_region[n] = r.dest_region_idx
                        /\ has_path(G, OriginNode, n)
                        => r.distance_km <= shortest_path_length(G, OriginNode, n)
        /\ \A j, k \in DOMAIN call.routes :
              j < k => /\ call.routes[j].dest_region_idx # call.routes[k].dest_region_idx
                       /\ call.routes[j].distance_km <= call.routes[k].distance_km

\* two routes were returned, and the region of one of them has a second
\* reachable node, which was not chosen
C22_Witness ==
    /\ TloadReturned
    /\ Len(call.routes) = 2
    /\ \E k \in DOMAIN call.routes :
          \E n \in G.nodes :
              /\ n # call.routes[k].dest_node
              /\ node_to_region[n] = call.routes[k].dest_region_idx
              /\ has_path(G, OriginNode, n)

\* the low-risk rows of the catalog of llload.py with a path from the origin
ReachableLowRows ==
    { i \in DOMAIN flood_df :
        /\ risk_lower(flood_df[i].risk) = "low"
        /\ has_path(G, OriginNode, CandidateNode(i)) }

\* C23: for an origin that is not low-risk llload.py draws routes to the
\* two low-risk regions (or the only one) of smallest finite shortest-path
\* length from the origin's nearest node, nearest first; a low-risk region
\* without a path is never a destination and every drawn length is finite.
C23_TwoNearestLowRegions ==
    call.fn = "llload" =>
        /\ risk_lower(flood_df[call.origin].risk) # "low"
        /\ Len(call.routes) = Min(2, Cardinality(ReachableLowRows))
        /\ \A k \in DOMAIN call.routes :
              /\ call.routes[k].row \in ReachableLowRows
              /\ call.routes[k].distance_km # inf
              /\ call.routes[k].distance_km =
                    shortest_path_length(G, OriginNode, CandidateNode(call.routes[k].row))
        /\ \A j, k \in DOMAIN call.routes :
              j < k => /\ call.routes[j].row # call.routes[k].row
                       /\ call.routes[j].distance_km <= call.routes[k].distance_km
        /\ \A i \in ReachableLowRows \ ReturnedRows :
              \A k \in DOMAIN call.routes :
                  call.routes[k].distance_km
                      <= shortest_path_length(G, OriginNode, CandidateNode(i))

\* two routes were drawn, and a low-risk region with a path and an earlier
\* place in the catalog than a drawn one was left out
C23_Witness ==
    /\ call.fn = "llload"
    /\ Len(call.routes) = 2
    /\ \E i \in ReachableLowRows \ ReturnedRows : i < call.routes[2].row

\* the catalog rows of a risk level
RowsOfRisk(level) == { i \in DOMAIN flood_df : flood_df[i].risk = level }

\* the rows C24 allows as destinations
AllowedDestinations ==
    IF RowsOfRisk("low") # {} THEN RowsOfRisk("low") ELSE RowsOfRisk("moderate")

\* C24: in warp.py and evacuation_app_enhanced.py the destination candidates
\* are exactly the 'low' rows when the catalog has one and exactly the
\* 'moderate' rows otherwise, and every returned route ends in such a row.
C24_LowThenModerate ==
    script \in {"warp", "enhanced"} =>
        /\ { safe_regions(flood_df)[k] : k \in DOMAIN safe_regions(flood_df) }
              = AllowedDestinations
        /\ call.fn \in {"warp", "enhanced"} /\ call.best_match # None
              => ReturnedRows \subseteq AllowedDestinations

\* a catalog without 'low' rows and with a row of higher risk than
\* 'moderate' gave a route to a 'moderate' row
C24_Witness ==
    /\ call.fn \in {"warp", "enhanced"}
    /\ call.best_match # None
    /\ RowsOfRisk("low") = {}
    /\ RowsOfRisk("high") # {}
    /\ call.routes # <<>>

\* the risk level of the row the start area was taken from (.iloc[0])
StartRisk == flood_df[StartIndex].risk

\* C25: in app.py, mumbai_evacuation_real.py and mumbai_evacuation_complete.py
\* every returned route ends in an area whose flood-risk severity is at most
\* the severity of the resolved start area.
C25_NoRiskierDestination ==
    (Resolved /\ call.fn \in {"app", "real", "complete"}) =>
        \A k \in DOMAIN call.routes :
            RiskRank(flood_df[call.routes[k].row].risk) <= RiskRank(StartRisk)

-----------------------------------------------------------------------------
(* Properties of the dashboards *)

Dashboards == {"app_ui", "complete_ui", "streamlit_ui"}

\* the route calculation the running dashboard calls on its search button
dashboard_calculation(user_region, res) ==
    CASE script = "app_ui" ->
            app_calculate_evacuation_routes(user_region, flood_df, res)
      [] script = "complete_ui" ->
            calculate_advanced_evacuation_routes(user_region, flood_df, res)
      [] script = "streamlit_ui" ->
            streamlit_calculate_evacuation_routes(user_region, flood_df, res)

\* the stored match, score and routes are what the calculation gives for the
\* stored input
StoredResultOfStoredInput ==
    \E res \in extractOne(Lower(session.user_region_input), all_areas(flood_df)) :
        LET r == dashboard_calculation(session.user_region_input, res)
        IN  /\ session.best_match = r.best_match
            /\ session.match_score = r.score
            /\ session.routes = r.routes

\* C26: in the dashboards, whenever results are displayed (routes_computed is
\* True) the stored best_match, match_score and routes are the result of the
\* route calculation for the stored input, after any sequence of Find, Clear,
\* quick-select and suggestion-button actions.
C26_ResultsOfStoredInput ==
    (script \in Dashboards /\ session.routes_computed) => StoredResultOfStoredInput

\* a press of a search button with a blank text box
BlankSubmit ==
    /\ Find \/ FindComplete \/ FindStreamlit
    /\ IsBlank(call'.user_area)

\* C27: submitting a blank or whitespace-only location in a dashboard runs no
\* route calculation, leaves best_match, match_score, routes and the stored
\* input unchanged, and leaves routes_computed False.
C27_BlankSubmitHidesResults ==
    [][BlankSubmit =>
          /\ call'.extract_calls = 0
          /\ session'.best_match = session.best_match
          /\ session'.match_score = session.match_score
          /\ session'.routes = session.routes
          /\ session'.user_region_input = session.user_region_input
          /\ ~session'.routes_computed]_vars

\* C28: after the Clear Results action, from any reachable session state, the
\* session equals the initial session: routes_computed is False, best_match,
\* match_score and routes are None and the stored input is the empty string.
C28_ClearRestoresInitialSession ==
    [][(ClearResults \/ ClearResultsComplete \/ ClearResultsStreamlit)
          => session' = NoSession]_vars

\* C29: the reported ETA is monotone in distance: of two routes returned for
\* the same query by app.py, mumbai_evacuation_real.py or
\* mumbai_evacuation_complete.py, the one with the larger distance_km never
\* has the smaller ETA, across the speed brackets too.
C29_EtaMonotone ==
    (Resolved /\ call.fn \in {"app", "real", "complete"}) =>
        \A j, k \in DOMAIN call.routes :
            call.routes[j].distance_km > call.routes[k].distance_km
               => EtaOf(call.fn, call.routes[j]) >= EtaOf(call.fn, call.routes[k])

-----------------------------------------------------------------------------
(* The urgency multiplier of mumbai_evacuation_complete.py *)

Priorities == {"Immediate", "Urgent", "Standard", "Safe"}

\* the catalog with the Evacuation_Priority of the start area set to p
WithStartPriority(p) == [flood_df EXCEPT ![StartIndex].prio = p]

\* the catalog rows of a route list, in its order
RowsOf(routes) == [k \in DOMAIN routes |-> routes[k].row]

\* distance_score - safety_improvement + density_penalty of the k-th returned
\* route, in ten-thousandths
UnmultipliedScore(k) ==
    LET r == call.routes[k]
    IN  (r.distance_km * 3000) - (r.safety_improvement * 10000)
          + (flood_df[r.row].dens * 5)

CompleteReturned == call.fn = "complete" /\ call.best_match # None

\* C30 as stated: for catalogs that differ only in the start area's
\* Evacuation_Priority, calculate_advanced_evacuation_routes returns the same
\* destinations in the same order.
C30_AsStated ==
    CompleteReturned =>
        \A p \in Priorities :
            RowsOf(calculate_advanced_evacuation_routes(
                       call.user_area, WithStartPriority(p), call.lib).routes)
               = RowsOf(call.routes)

\* C30: in calculate_advanced_evacuation_routes the urgency multiplier is one
\* positive factor shared by all candidates of a query, and the returned order
\* follows the unmultiplied score up to the rounding of the sort key: a route
\* is returned before another only if its unmultiplied score times the
\* multiplier exceeds the other's by at most 0.01.
C30_OrderUpToRounding ==
    CompleteReturned =>
        LET m2 == urgency_multiplier2(flood_df[StartIndex].prio)
        IN  /\ m2 > 0
            /\ \A k \in DOMAIN call.routes :
                  call.routes[k].route_score = RoundDiv(UnmultipliedScore(k) * m2, 200)
            /\ \A j, k \in DOMAIN call.routes :
                  j < k => m2 * (UnmultipliedScore(j) - UnmultipliedScore(k)) <= 200

\* a route is returned before one of smaller unmultiplied score, and another
\* start priority gives another order
C30_Witness ==
    /\ CompleteReturned
    /\ \E j, k \in DOMAIN call.routes :
          j < k /\ UnmultipliedScore(j) > UnmultipliedScore(k)
    /\ \E p \in Priorities :
          RowsOf(calculate_advanced_evacuation_routes(
                     call.user_area, WithStartPriority(p), call.lib).routes)
             # RowsOf(call.routes)


====
